---------------------------- MODULE Spec2Model ----------------------------
(***************************************************************************)
(* Model of the self-evolving agent: the tool registry (tool_manager.py),  *)
(* the cron scheduler (scheduler.py) and the conversation loop (agent.py). *)
(* Each subsystem has its own specification over the shared variables:     *)
(*   SpecTools  - ToolManager: create/update/delete/view/list/reload/exec  *)
(*   SpecSched  - Scheduler: create/delete/start/stop and the poll loop    *)
(*   SpecChat   - chat(): model calls, tool rounds, summarisation          *)
(***************************************************************************)
EXTENDS Integers, Sequences, FiniteSets, TLC

VARIABLES
    \* ---- ToolManager (tool_manager.py) ----
    tools,      \* self.tools: name -> [description, parameters, function, is_builtin]
    manifest,   \* manifest.json: name -> meta record
    files,      \* tools/_custom/<name>.py: name -> source text
    tnow,       \* wall clock read by datetime.now() in the registry
    lastOp,     \* the last completed registry call and what it returned
    deleted,    \* history: names deleted and not created again since
    \* ---- Scheduler (scheduler.py) ----
    tasks,      \* self._tasks: the list of task records
    saved,      \* scheduled_tasks.json: the persisted task list
    now,        \* wall clock read by datetime.now(TZ), in minutes
    running,    \* self._running
    thread,     \* self._thread: the poll-loop thread started last (0 = None)
    loop,       \* the poll-loop threads: position, tasks_to_run still to go
    callback,   \* self._on_task_execute is set
    nextId,     \* the next fresh task id
    raises,     \* number of times the callback has raised so far
    dispatched, \* history: id -> number of times the task was dispatched
    lastDue,    \* history: id -> next_run of the copy dispatched last
    lock,       \* self._lock: the poll loop holding it (0 = nobody)
    starting,   \* start() calls that found _running unset and have not set it yet
    \* ---- chat() (agent.py) ----
    chatpc,         \* where the call is: idle, top (loop test), tools, done
    histArg,        \* the history argument as the caller passed it
    user_message,   \* the user_message argument
    max_iterations, \* the max_iterations argument
    on_tool_start,  \* an observer was passed
    history,        \* the list object the local name history is bound to
    messages,       \* the list object the local name messages is bound to
    aliased,        \* messages and history are one list object
    iteration,      \* the loop counter
    pending,        \* tool_calls of this round not yet executed
    tool_results,   \* the results collected in this round
    sentTools,      \* the tools= schemas of the latest model call
    answers,        \* history: the backend's outcome for each loop call
    notified,       \* history: observer invocations, and how the last one ended
    summaryCalls,   \* history: number of summarisation calls
    summary,        \* history: how the summarisation call ended ("none" before it)
    ret,            \* what chat() handed back
    \* ---- concurrent callers of the registry (bot.py thread pool) ----
    worker,         \* per thread: its position inside _create_tool
    \* ---- MemoryManager (memory_manager.py) ----
    memories,   \* MemoryManager.memories: category -> key -> entry
    memFile,    \* the memories document on disk
    memOrder,   \* the iteration order of the memories dict and of each category
    mnow,       \* the wall clock of the memory calls
    lastMem     \* history: the last memory call and the string it returned

toolVars == <<tools, manifest, files, tnow, lastOp, deleted>>

schedVars == <<tasks, saved, now, running, thread, loop, callback, nextId,
               raises, dispatched, lastDue, lock, starting>>

chatVars == <<chatpc, histArg, user_message, max_iterations, on_tool_start,
              history, messages, aliased, iteration, pending, tool_results,
              sentTools, answers, notified, summaryCalls, summary, ret>>

raceVars == <<worker>>

memVars == <<memories, memFile, memOrder, mnow, lastMem>>

vars == <<toolVars, schedVars, chatVars, raceVars, memVars>>

(***************************************************************************)
(* Bounds                                                                  *)
(***************************************************************************)
MaxToolTime == 2
MaxTasks == 2
MaxTime == 2
MaxRaises == 1
MaxLoops == 2
RunCap == 2
MaxIterations == 3

\* the memory clock stops here
MaxMemTime == 2

\* the number of entries the memory store holds at most
MaxEntries == 3

(***************************************************************************)
(* Python values and their str() / truthiness                              *)
(***************************************************************************)
NoneVal == "None"

\* values a tool's run() may return (tagged by Python type); "s_long" and
\* "s_limit" are further string values, one character longer than the
\* conversation loop's result ceiling and exactly as long as it
Values == {"s_hello", "s_empty", "i_0", "i_7", "b_False", "b_True", "l_empty", NoneVal}

\* bool(v)
Truthy(v) == v \in {"s_hello", "s_long", "s_limit", "i_7", "b_True"}

\* str(v)
PyStr(v) ==
    CASE v = "s_hello" -> "hello"
      [] v = "s_long"  -> "long"
      [] v = "s_limit" -> "limit"
      [] v = "s_empty" -> ""
      [] v = "i_0"     -> "0"
      [] v = "i_7"     -> "7"
      [] v = "b_False" -> "False"
      [] v = "b_True"  -> "True"
      [] v = "l_empty" -> "[]"
      [] OTHER         -> "None"

\* datetime.isoformat(): fixed-width decimal fields
IsoFormat(t) == <<t \div 10, t % 10>>

\* datetime.fromisoformat()
FromIsoFormat(s) == s[1] * 10 + s[2]

(***************************************************************************)
(* Tool names                                                              *)
(***************************************************************************)
BuiltinNames == {"web_search", "run_python", "create_tool", "list_tools",
                 "delete_tool", "view_tool_code", "update_tool", "remember",
                 "recall", "list_memories", "forget"}

\* well-formed names a caller may pick for a custom tool
CustomNames == {"t1"}

\* every name a caller may pass
NameInputs == CustomNames \cup {"t-3", "_t4", "__", "web_search"}

\* names a caller may pass to update, delete and view (a custom name that is
\* not registered is the unknown name)
TargetInputs == CustomNames \cup {"web_search"}

\* the threads of the executor that run chat() for different users, and the
\* name each of them asks create_tool for
Workers == {1, 2}

WorkerName(w) == IF w = 1 THEN "t1" ELSE "t2"

\* the characters of a name
NameChars(n) ==
    CASE n = "t1"  -> <<"t", "1">>
      [] n = "t2"  -> <<"t", "2">>
      [] n = "t-3" -> <<"t", "-", "3">>
      [] n = "_t4" -> <<"_", "t", "4">>
      [] n = "__"  -> <<"_", "_">>
      [] OTHER     -> <<"w", "_", "s">>

AlnumChars == {"t", "w", "s", "1", "2", "3", "4"}

\* name.replace("_", "").isalnum()
IsAlnumSansUnderscore(n) ==
    LET stripped == SelectSeq(NameChars(n), LAMBDA c : c # "_")
    IN  stripped # <<>> /\ \A i \in 1..Len(stripped) : stripped[i] \in AlnumChars

\* name.startswith("__"): a weaker test
StartsWithDoubleUnderscore(n) ==
    Len(NameChars(n)) >= 2 /\ NameChars(n)[1] = "_" /\ NameChars(n)[2] = "_"

\* name.startswith("_")
StartsWithUnderscore(n) == NameChars(n)[1] = "_"

(***************************************************************************)
(* Tool sources                                                            *)
(***************************************************************************)
\*  src_echo      def run(x): return x
\*  src_raise     def run(x): raise ValueError(...)
\*  src_nomarker  no "def run(" text at all
\*  src_norun     "def run(" only inside a comment: module has no run
\*  src_importerr has def run(x) but raises while the module is executed
\*  src_danger    def run(x) containing "rm -rf /"
Sources == {"src_echo", "src_raise", "src_nomarker",
            "src_norun", "src_importerr", "src_danger"}

\* "def run(" in code or "def run (" in code
HasRunMarker(code) == code # "src_nomarker"

\* any(pattern in code for pattern in dangerous_patterns)
HasDangerousPattern(code) == code = "src_danger"

\* spec.loader.exec_module(module) raises
ExecModuleRaises(code) == code = "src_importerr"

\* hasattr(module, "run")
HasRunAttr(code) == code \notin {"src_nomarker", "src_norun"}

\* keyword names run() accepts
RunSignature(code) == {"x"}

Descriptions == {"d1", "d2"}
ParamSchemas == {"p1"}

(***************************************************************************)
(* ToolManager helpers                                                     *)
(***************************************************************************)
\* d[k] = v on a dict
Put(d, k, v) == [x \in (DOMAIN d) \cup {k} |-> IF x = k THEN v ELSE d[x]]

\* del d[k]
Drop(d, k) == [x \in (DOMAIN d) \ {k} |-> d[x]]

EmptyDict == [x \in {} |-> NoneVal]

\* not v  (None, "" and {} are falsy)
IsFalsy(v) == v \in {NoneVal, ""}

\* what a registry call hands back: the leading mark of the string, its
\* body, and whether a traceback is appended
Result(mark, text) == [mark |-> mark, text |-> text, trace |-> FALSE]
Ok(text)  == Result("ok", text)
Err(text) == Result("err", text)

Registry(T, M, F) == [tools |-> T, manifest |-> M, files |-> F]

Outcome(reg, result) == [reg |-> reg, result |-> result]

\* ToolManager._load_builtin_tools
BuiltinTools ==
    [n \in BuiltinNames |->
        [description |-> "builtin", parameters |-> "builtin",
         function |-> n, is_builtin |-> TRUE]]

\* ToolManager._load_single_tool: the registry map afterwards, and whether
\* the load raised
LoadSingleTool(T, F, name, meta) ==
    IF name \notin DOMAIN F
    THEN [tools |-> T, raised |-> FALSE]
    ELSE IF \/ ExecModuleRaises(F[name])
            \/ ~HasRunAttr(F[name])
            \/ ~({"description", "parameters"} \subseteq DOMAIN meta)
         THEN [tools |-> T, raised |-> TRUE]
         ELSE [tools |-> Put(T, name,
                            [description |-> meta["description"],
                             parameters  |-> meta["parameters"],
                             function    |-> F[name],
                             is_builtin  |-> FALSE]),
               raised |-> FALSE]

\* ToolManager._load_custom_tools: every manifest entry is loaded on its own,
\* a failing one is reported and skipped
LoadCustomTools(T, M, F) ==
    LET loaded == {n \in DOMAIN M :
                     /\ n \in DOMAIN F
                     /\ ~LoadSingleTool(T, F, n, M[n]).raised}
    IN  [n \in (DOMAIN T) \cup loaded |->
            IF n \in loaded THEN LoadSingleTool(T, F, n, M[n]).tools[n]
                            ELSE T[n]]

\* a rollback that forgets to unlink the source
CreateRollbackKeepsFile(T, M, F, name) == Registry(T, Drop(M, name), F)

\* the except branch of _create_tool: unlink the source, drop the entry
CreateRollback(T, M, F, name) == Registry(T, Drop(M, name), Drop(F, name))

\* ToolManager._create_tool
CreateToolOp(reg, name, description, parameters, code, t) ==
    IF name \in DOMAIN reg.tools THEN Outcome(reg, Err("tool exists"))
    ELSE IF ~IsAlnumSansUnderscore(name) THEN Outcome(reg, Err("bad charset"))
    ELSE IF StartsWithUnderscore(name) THEN Outcome(reg, Err("leading underscore"))
    ELSE IF ~HasRunMarker(code) THEN Outcome(reg, Err("no def run"))
    ELSE IF HasDangerousPattern(code) THEN Outcome(reg, Err("dangerous"))
    ELSE
        LET F1   == Put(reg.files, name, code)
            meta == [description |-> description, parameters |-> parameters,
                     created_at |-> IsoFormat(t), updated_at |-> IsoFormat(t)]
            M1   == Put(reg.manifest, name, meta)
            ld   == LoadSingleTool(reg.tools, F1, name, meta)
        IN  IF ~ld.raised
            THEN Outcome(Registry(ld.tools, M1, F1), Ok("created"))
            ELSE Outcome(CreateRollback(reg.tools, M1, F1, name),
                         Err("create failed"))

\* ToolManager._list_tools: the names under each heading
ListToolsOp(reg) ==
    [builtin |-> {n \in DOMAIN reg.tools : reg.tools[n].is_builtin},
     custom  |-> {n \in DOMAIN reg.tools : ~reg.tools[n].is_builtin}]

\* a delete that forgets the manifest entry
DeleteEffectsKeepManifest(reg, name) ==
    Registry(Drop(reg.tools, name), reg.manifest, Drop(reg.files, name))

\* _delete_tool past its checks: unlink the source, drop the manifest entry,
\* drop the registration
DeleteEffects(reg, name) ==
    Registry(Drop(reg.tools, name), Drop(reg.manifest, name), Drop(reg.files, name))

\* a _delete_tool without the is_builtin test
DeleteToolOpAnyOrigin(reg, name) ==
    IF name \notin DOMAIN reg.tools THEN Outcome(reg, Err("no such tool"))
    ELSE Outcome(DeleteEffects(reg, name), Ok("deleted"))

\* ToolManager._delete_tool
DeleteToolOp(reg, name) ==
    IF name \notin DOMAIN reg.tools THEN Outcome(reg, Err("no such tool"))
    ELSE IF reg.tools[name].is_builtin THEN Outcome(reg, Err("builtin"))
    ELSE Outcome(DeleteEffects(reg, name), Ok("deleted"))

\* ToolManager._view_tool_code
ViewToolCodeOp(reg, name) ==
    IF name \notin DOMAIN reg.tools THEN Outcome(reg, Err("no such tool"))
    ELSE IF reg.tools[name].is_builtin THEN Outcome(reg, Err("builtin"))
    ELSE IF name \notin DOMAIN reg.files THEN Outcome(reg, Err("no code file"))
    ELSE Outcome(reg, Result("doc", reg.files[name]))

\* an update_tool that stores the new description and parameters before it
\* looks at the source
UpdateToolOpMetaFirst(reg, name, description, parameters, code, t) ==
    IF name \notin DOMAIN reg.tools THEN Outcome(reg, Err("no such tool"))
    ELSE IF reg.tools[name].is_builtin THEN Outcome(reg, Err("builtin"))
    ELSE IF IsFalsy(description) /\ IsFalsy(parameters) /\ IsFalsy(code)
         THEN Outcome(reg, Err("no field"))
    ELSE
        LET meta0 == IF name \in DOMAIN reg.manifest THEN reg.manifest[name]
                                                     ELSE EmptyDict
            meta1 == IF ~IsFalsy(description)
                     THEN Put(meta0, "description", description) ELSE meta0
            meta2 == IF ~IsFalsy(parameters)
                     THEN Put(meta1, "parameters", parameters) ELSE meta1
            meta  == Put(meta2, "updated_at", IsoFormat(t))
            M1    == Put(reg.manifest, name, meta)
        IN  IF ~IsFalsy(code) /\ ~HasRunMarker(code)
            THEN Outcome(Registry(reg.tools, M1, reg.files), Err("no def run"))
            ELSE IF ~IsFalsy(code) /\ HasDangerousPattern(code)
            THEN Outcome(Registry(reg.tools, M1, reg.files), Err("dangerous"))
            ELSE
                LET F1 == IF ~IsFalsy(code) THEN Put(reg.files, name, code)
                                            ELSE reg.files
                    T0 == Drop(reg.tools, name)
                    ld == LoadSingleTool(T0, F1, name, meta)
                IN  IF ~ld.raised
                    THEN Outcome(Registry(ld.tools, M1, F1), Ok("updated"))
                    ELSE Outcome(Registry(T0, M1, F1), Err("update failed"))

\* ToolManager._update_tool
UpdateToolOp(reg, name, description, parameters, code, t) ==
    IF name \notin DOMAIN reg.tools THEN Outcome(reg, Err("no such tool"))
    ELSE IF reg.tools[name].is_builtin THEN Outcome(reg, Err("builtin"))
    ELSE IF IsFalsy(description) /\ IsFalsy(parameters) /\ IsFalsy(code)
         THEN Outcome(reg, Err("no field"))
    ELSE IF ~IsFalsy(code) /\ ~HasRunMarker(code)
         THEN Outcome(reg, Err("no def run"))
    ELSE IF ~IsFalsy(code) /\ HasDangerousPattern(code)
         THEN Outcome(reg, Err("dangerous"))
    ELSE
        LET meta0 == IF name \in DOMAIN reg.manifest THEN reg.manifest[name]
                                                     ELSE EmptyDict
            F1    == IF ~IsFalsy(code) THEN Put(reg.files, name, code)
                                       ELSE reg.files
            meta1 == IF ~IsFalsy(description)
                     THEN Put(meta0, "description", description) ELSE meta0
            meta2 == IF ~IsFalsy(parameters)
                     THEN Put(meta1, "parameters", parameters) ELSE meta1
            meta  == Put(meta2, "updated_at", IsoFormat(t))
            M1    == Put(reg.manifest, name, meta)
            T0    == Drop(reg.tools, name)
            ld    == LoadSingleTool(T0, F1, name, meta)
        IN  IF ~ld.raised
            THEN Outcome(Registry(ld.tools, M1, F1), Ok("updated"))
            ELSE Outcome(Registry(T0, M1, F1), Err("update failed"))

\* ToolManager.get_schemas
GetSchemas(reg) ==
    {[name |-> n, description |-> reg.tools[n].description,
      input_schema |-> reg.tools[n].parameters] : n \in DOMAIN reg.tools}

\* a reload_tools that loads on top of the whole old map
ReloadToolsOpKeepAll(reg) ==
    LET builtin == [n \in {k \in DOMAIN reg.tools : reg.tools[k].is_builtin}
                      |-> reg.tools[n]]
        T1      == LoadCustomTools(reg.tools, reg.manifest, reg.files)
    IN  Outcome(Registry(T1, reg.manifest, reg.files),
                [mark |-> "ok", text |-> "reloaded", trace |-> FALSE,
                 count |-> Cardinality(DOMAIN T1) - Cardinality(DOMAIN builtin)])

\* ToolManager.reload_tools
ReloadToolsOp(reg) ==
    LET builtin == [n \in {k \in DOMAIN reg.tools : reg.tools[k].is_builtin}
                      |-> reg.tools[n]]
        T1      == LoadCustomTools(builtin, reg.manifest, reg.files)
    IN  Outcome(Registry(T1, reg.manifest, reg.files),
                [mark |-> "ok", text |-> "reloaded", trace |-> FALSE,
                 count |-> Cardinality(DOMAIN T1) - Cardinality(DOMAIN builtin)])

(***************************************************************************)
(* ToolManager.execute                                                     *)
(***************************************************************************)
\* keyword names a handler must / may be given
RequiredArgs(handler) ==
    CASE handler = "create_tool"    -> {"name", "description", "parameters", "code"}
      [] handler = "update_tool"    -> {"name"}
      [] handler = "delete_tool"    -> {"name"}
      [] handler = "view_tool_code" -> {"name"}
      [] handler = "web_search"     -> {"query"}
      [] handler = "run_python"     -> {"code"}
      [] handler = "remember"       -> {"category", "key", "content"}
      [] handler = "forget"         -> {"category", "key"}
      [] handler \in {"list_tools", "list_memories", "recall"} -> {}
      [] OTHER                      -> RunSignature(handler)

AcceptedArgs(handler) ==
    CASE handler = "update_tool" -> {"name", "description", "parameters", "code"}
      [] handler = "recall"      -> {"query", "category"}
      [] OTHER                   -> RequiredArgs(handler)

\* function(**params) binds: otherwise Python raises TypeError
ArgsBind(handler, args) ==
    /\ RequiredArgs(handler) \subseteq DOMAIN args
    /\ DOMAIN args \subseteq AcceptedArgs(handler)

\* a keyword argument, or its None default
Arg(args, k) == IF k \in DOMAIN args THEN args[k] ELSE NoneVal

\* the call of a bound handler: the registry afterwards, the exception it
\* raised if any, and the value it returned (a Python value for a custom run(), the
\* message string for a built-in)
HandlerCall(reg, handler, args, t) ==
    CASE handler = "create_tool" ->
            LET o == CreateToolOp(reg, args["name"], args["description"],
                                  args["parameters"], args["code"], t)
            IN  [reg |-> o.reg, exc |-> "none", isstr |-> TRUE,
                 val |-> NoneVal, res |-> o.result]
      [] handler = "update_tool" ->
            LET o == UpdateToolOp(reg, args["name"], Arg(args, "description"),
                                  Arg(args, "parameters"), Arg(args, "code"), t)
            IN  [reg |-> o.reg, exc |-> "none", isstr |-> TRUE,
                 val |-> NoneVal, res |-> o.result]
      [] handler = "delete_tool" ->
            LET o == DeleteToolOp(reg, args["name"])
            IN  [reg |-> o.reg, exc |-> "none", isstr |-> TRUE,
                 val |-> NoneVal, res |-> o.result]
      [] handler = "view_tool_code" ->
            LET o == ViewToolCodeOp(reg, args["name"])
            IN  [reg |-> o.reg, exc |-> "none", isstr |-> TRUE,
                 val |-> NoneVal, res |-> o.result]
      [] handler = "list_tools" ->
            [reg |-> reg, exc |-> "none", isstr |-> TRUE,
             val |-> NoneVal, res |-> Result("list", "tools")]
      [] handler \in BuiltinNames \ {"create_tool", "update_tool", "delete_tool",
                                     "view_tool_code", "list_tools"} ->
            \* search, code runner and memory tools: external collaborators
            \* that answer with a message string
            [reg |-> reg, exc |-> "none", isstr |-> TRUE,
             val |-> NoneVal, res |-> Result("ext", handler)]
      [] handler = "src_echo" ->
            [reg |-> reg, exc |-> "none", isstr |-> FALSE,
             val |-> args["x"], res |-> Result("none", PyStr(args["x"]))]
      [] OTHER ->
            \* src_raise
            [reg |-> reg, exc |-> "ValueError", isstr |-> FALSE,
             val |-> NoneVal, res |-> Err("raised")]

\* str(result) if result else "done"
RenderResult(call) ==
    IF call.isstr \/ Truthy(call.val) THEN call.res ELSE Ok("done")

\* the except branch of execute: message plus traceback.format_exc()
ExecFailure == [mark |-> "err", text |-> "execute failed", trace |-> TRUE]

\* except ValueError: a narrower clause
CaughtValueErrorOnly(exc) == exc = "ValueError"

\* except Exception: the exception classes the clause catches
CaughtByExecute(exc) == exc \in {"TypeError", "ValueError"}

\* the try body of execute: binding the keyword arguments and the call
TryCall(reg, handler, args, t) ==
    IF ~ArgsBind(handler, args)
    THEN [reg |-> reg, exc |-> "TypeError", isstr |-> FALSE,
          val |-> NoneVal, res |-> Err("raised")]
    ELSE HandlerCall(reg, handler, args, t)

\* ToolManager.execute: the registry afterwards, the returned string, whether
\* an exception left execute, how the call failed, and the handler's value
ExecuteOp(reg, name, args, t) ==
    IF name \notin DOMAIN reg.tools
    THEN [reg |-> reg, result |-> Err("unknown tool"), raised |-> FALSE,
          failure |-> "unknown", val |-> NoneVal]
    ELSE
        LET handler == reg.tools[name].function
            how     == IF ArgsBind(handler, args) THEN "handler" ELSE "bind"
        IN  CHOOSE out \in
              {IF call.exc = "none"
               THEN [reg |-> call.reg, result |-> RenderResult(call),
                     raised |-> FALSE, failure |-> "none", val |-> call.val]
               ELSE IF CaughtByExecute(call.exc)
               THEN [reg |-> call.reg, result |-> ExecFailure, raised |-> FALSE,
                     failure |-> how, val |-> NoneVal]
               ELSE [reg |-> call.reg, result |-> Result("none", ""),
                     raised |-> TRUE, failure |-> how, val |-> NoneVal] :
                 call \in {TryCall(reg, handler, args, t)}} : TRUE

(***************************************************************************)
(* ToolManager actions                                                     *)
(***************************************************************************)
CurrentRegistry == Registry(tools, manifest, files)

NoOp == [op |-> "none", name |-> NoneVal,
         result |-> Result("none", ""), raised |-> FALSE,
         failure |-> "none", val |-> NoneVal]

\* ToolManager.__init__ on an empty custom-tool area,
\* Scheduler.__init__ with no persisted task document, and no chat() call yet
Init ==
    /\ tools = LoadCustomTools(BuiltinTools, EmptyDict, EmptyDict)
    /\ manifest = EmptyDict
    /\ files = EmptyDict
    /\ tnow = 0
    /\ lastOp = NoOp
    /\ deleted = {}
    /\ tasks = <<>>
    /\ saved = <<>>
    /\ now = 0
    /\ running = FALSE
    /\ thread = 0
    /\ loop = [i \in 1..MaxLoops |-> [pc |-> "unborn", queue |-> <<>>]]
    /\ callback = FALSE
    /\ nextId = 1
    /\ raises = 0
    /\ dispatched = [i \in 1..MaxTasks |-> 0]
    /\ lastDue = [i \in 1..MaxTasks |-> <<>>]
    /\ lock = 0
    /\ starting = 0
    /\ chatpc = "idle"
    /\ histArg = [given |-> FALSE, turns |-> <<>>]
    /\ user_message = [text |-> <<>>, image |-> FALSE, calls |-> <<>>, results |-> <<>>]
    /\ max_iterations = 0
    /\ on_tool_start = FALSE
    /\ history = <<>>
    /\ messages = <<>>
    /\ aliased = FALSE
    /\ iteration = 0
    /\ pending = <<>>
    /\ tool_results = <<>>
    /\ sentTools = {}
    /\ answers = <<>>
    /\ notified = [calls |-> 0, last |-> "none"]
    /\ summary = "none"
    /\ summaryCalls = 0
    /\ ret = [kind |-> "none", text |-> <<>>, history |-> <<>>]
    /\ worker = [w \in Workers |->
                    [pc |-> "idle", code |-> NoneVal, local |-> <<>>,
                     result |-> [mark |-> "none", text |-> "", trace |-> FALSE]]]
    /\ memories = EmptyDict
    /\ memFile = [exists |-> FALSE, doc |-> <<>>]
    /\ memOrder = [cats |-> <<>>, keys |-> EmptyDict]
    /\ mnow = 0
    /\ lastMem = [op |-> "none", category |-> NoneVal, key |-> NoneVal,
                  result |-> Result("none", "")]

\* one tool_manager.execute(name, args) call, start to return: the registry
\* afterwards, the record of the call, and the names deleted since (the
\* outcome o of the one call is bound once and read field by field)
DoExecute(name, args) ==
    CHOOSE after \in
        {[tools |-> o.reg.tools, manifest |-> o.reg.manifest, files |-> o.reg.files,
          lastOp |-> [op |-> name, name |-> Arg(args, "name"),
                      result |-> o.result, raised |-> o.raised,
                      failure |-> o.failure, val |-> o.val],
          deleted |-> IF name = "delete_tool" /\ o.result = Ok("deleted")
                      THEN deleted \cup {Arg(args, "name")}
                      ELSE IF name = "create_tool" /\ o.result = Ok("created")
                      THEN deleted \ {Arg(args, "name")}
                      ELSE deleted] :
            o \in {ExecuteOp(CurrentRegistry, name, args, tnow)}} : TRUE

CreateTool ==
    \E n \in NameInputs, d \in Descriptions, p \in ParamSchemas, c \in Sources :
        \E o \in {DoExecute("create_tool", [name |-> n, description |-> d,
                                           parameters |-> p, code |-> c])} :
            /\ tools' = o.tools
            /\ manifest' = o.manifest
            /\ files' = o.files
            /\ lastOp' = o.lastOp
            /\ deleted' = o.deleted
            /\ UNCHANGED <<tnow, schedVars, chatVars, raceVars, memVars>>

UpdateTool ==
    \E n \in TargetInputs, d \in Descriptions \cup {NoneVal},
       p \in ParamSchemas \cup {NoneVal}, c \in Sources \cup {NoneVal} :
        \E o \in {DoExecute("update_tool", [name |-> n, description |-> d,
                                           parameters |-> p, code |-> c])} :
            /\ tools' = o.tools
            /\ manifest' = o.manifest
            /\ files' = o.files
            /\ lastOp' = o.lastOp
            /\ deleted' = o.deleted
            /\ UNCHANGED <<tnow, schedVars, chatVars, raceVars, memVars>>

DeleteTool ==
    \E n \in TargetInputs :
        \E o \in {DoExecute("delete_tool", [name |-> n])} :
            /\ tools' = o.tools
            /\ manifest' = o.manifest
            /\ files' = o.files
            /\ lastOp' = o.lastOp
            /\ deleted' = o.deleted
            /\ UNCHANGED <<tnow, schedVars, chatVars, raceVars, memVars>>

ViewToolCode ==
    \E n \in TargetInputs :
        \E o \in {DoExecute("view_tool_code", [name |-> n])} :
            /\ lastOp' = o.lastOp
            /\ UNCHANGED <<tools, manifest, files, deleted, tnow, schedVars, chatVars, raceVars, memVars>>

ListTools ==
    \E o \in {DoExecute("list_tools", EmptyDict)} :
        /\ lastOp' = o.lastOp
        /\ UNCHANGED <<tools, manifest, files, deleted, tnow, schedVars, chatVars, raceVars, memVars>>

\* arguments a caller may give a custom tool
RunArgs == {[x |-> v] : v \in Values} \cup {EmptyDict}

\* execute of a custom tool (or of a name that is not registered)
Execute ==
    \E n \in CustomNames, a \in RunArgs :
        \E o \in {DoExecute(n, a)} :
            /\ tools' = o.tools
            /\ manifest' = o.manifest
            /\ files' = o.files
            /\ lastOp' = o.lastOp
            /\ deleted' = o.deleted
            /\ UNCHANGED <<tnow, schedVars, chatVars, raceVars, memVars>>

ReloadTools ==
    LET o == ReloadToolsOp(CurrentRegistry)
    IN  /\ tools' = o.reg.tools
        /\ lastOp' = [NoOp EXCEPT !.op = "reload_tools", !.result = o.result]
        /\ UNCHANGED <<manifest, files, tnow, deleted, schedVars, chatVars, raceVars, memVars>>

\* time passes between registry calls
ToolTick ==
    /\ tnow < MaxToolTime
    /\ tnow' = tnow + 1
    /\ UNCHANGED <<tools, manifest, files, lastOp, deleted, schedVars, chatVars, raceVars, memVars>>

ToolNext ==
    \/ CreateTool
    \/ UpdateTool
    \/ DeleteTool
    \/ ViewToolCode
    \/ ListTools
    \/ Execute
    \/ ReloadTools
    \/ ToolTick

SpecTools == Init /\ [][ToolNext]_vars

(***************************************************************************)
(* Properties of the tool registry                                         *)
(***************************************************************************)
\* the last call was a create_tool that failed on its source: rejected for
\* the missing "def run(" text, or written and then failing to load
CreateFailedOnSource ==
    /\ lastOp.op = "create_tool"
    /\ lastOp.result \in {Err("no def run"), Err("create failed")}

\* C2: after a create_tool(name, ...) that fails because the source does not
\* load or lacks the run entry point, name has no source file, no manifest
\* entry and no registration, and create_tool(name, valid source) succeeds
C2_CreateAtomicOrNothing ==
    CreateFailedOnSource =>
        /\ lastOp.name \notin DOMAIN files
        /\ lastOp.name \notin DOMAIN manifest
        /\ lastOp.name \notin DOMAIN tools
        /\ \A d \in Descriptions, p \in ParamSchemas :
              ExecuteOp(CurrentRegistry, "create_tool",
                        [name |-> lastOp.name, description |-> d,
                         parameters |-> p, code |-> "src_echo"],
                        tnow).result = Ok("created")

\* C3: after any sequence of completed create/update/delete/reload calls a
\* manifest entry exists for a name exactly when a source file exists for it
C3_ManifestSourcePairing == DOMAIN manifest = DOMAIN files

\* a create_tool has just written source and entry and rolled both back
C3_Witness ==
    /\ lastOp.op = "create_tool"
    /\ lastOp.result = Err("create failed")
    /\ lastOp.name \notin DOMAIN files

\* C8: a deleted custom tool has no source file, no manifest entry and no
\* registration; execute and view_tool_code answer with an error, list_tools
\* and get_schemas do not show it; reload_tools does not bring it back; this
\* lasts until the name is created again
C8_DeleteCompleteAndLasting ==
    \A n \in deleted :
        /\ n \notin DOMAIN files
        /\ n \notin DOMAIN manifest
        /\ n \notin DOMAIN tools
        /\ \A a \in RunArgs :
              ExecuteOp(CurrentRegistry, n, a, tnow).result.mark = "err"
        /\ ViewToolCodeOp(CurrentRegistry, n).result.mark = "err"
        /\ n \notin ListToolsOp(CurrentRegistry).builtin
        /\ n \notin ListToolsOp(CurrentRegistry).custom
        /\ \A sch \in GetSchemas(CurrentRegistry) : sch.name # n
        /\ n \notin DOMAIN ReloadToolsOp(CurrentRegistry).reg.tools

\* a tool was deleted and reload_tools has run since
C8_Witness == deleted # {} /\ lastOp.op = "reload_tools"

\* the last call was execute of a registered custom tool whose run returned
RunReturned ==
    /\ lastOp.op \in CustomNames
    /\ lastOp.failure = "none"
    /\ lastOp.result # Err("unknown tool")

\* C9: execute returns str(value) for every value the tool's run returned,
\* the falsy ones ("", 0, False, an empty collection) included
C9_ExecuteReturnsHandlerOutput ==
    RunReturned => lastOp.result = Result("none", PyStr(lastOp.val))

\* C10: execute never raises: for an unknown name, a handler that raises and
\* arguments that do not bind it returns an error string (carrying a trace
\* unless the name is unknown) and leaves registry, manifest and files as
\* they were
C10_ExecuteNeverRaises ==
    [][ /\ ~lastOp'.raised
        /\ lastOp'.failure # "none" =>
              /\ lastOp'.result.mark = "err"
              /\ lastOp'.failure \in {"bind", "handler"} => lastOp'.result.trace
              /\ UNCHANGED <<tools, manifest, files>> ]_vars

\* a registered custom tool's run raised inside execute
C10_Witness ==
    /\ lastOp.op \in CustomNames
    /\ lastOp.op \in DOMAIN tools
    /\ lastOp.failure = "handler"
    /\ lastOp.result = ExecFailure

\* the name rules in the claim's words: the name is registered already, or
\* holds a character that is no letter, digit or underscore, or starts with
\* an underscore
NameUnacceptable(n) ==
    \/ n \in DOMAIN tools
    \/ \E i \in 1..Len(NameChars(n)) : NameChars(n)[i] \notin AlnumChars \cup {"_"}
    \/ NameChars(n)[1] = "_"

\* C11: create_tool with a name that is taken (built-in or custom), holds a
\* character outside letters/digits/underscore, or starts with an
\* underscore returns an error string and leaves source files, manifest
\* and registrations as they were, whatever the other arguments
C11_NameGovernance ==
    \A n \in NameInputs, d \in Descriptions, p \in ParamSchemas, c \in Sources :
        NameUnacceptable(n) =>
            \A o \in {ExecuteOp(CurrentRegistry, "create_tool",
                                [name |-> n, description |-> d,
                                 parameters |-> p, code |-> c], tnow)} :
                /\ o.result.mark = "err"
                /\ ~o.raised
                /\ o.reg = CurrentRegistry

\* create_tool was refused for a name a registered custom tool holds
C11_Witness ==
    /\ lastOp.op = "create_tool"
    /\ lastOp.result = Err("tool exists")
    /\ lastOp.name \in CustomNames
    /\ lastOp.name \in DOMAIN tools
    /\ lastOp.name \in DOMAIN files

\* the arguments a caller may give update_tool besides the name
UpdateArgs(n) ==
    {[name |-> n, description |-> d, parameters |-> p, code |-> c] :
        d \in Descriptions \cup {NoneVal}, p \in ParamSchemas \cup {NoneVal},
        c \in Sources \cup {NoneVal}}

\* update_tool, delete_tool and view_tool_code on the name answer with an
\* error string and leave the registry, the manifest and the files alone
RefusedEverywhere(n) ==
    /\ \A a \in UpdateArgs(n) :
          \A o \in {ExecuteOp(CurrentRegistry, "update_tool", a, tnow)} :
              o.result.mark = "err" /\ ~o.raised /\ o.reg = CurrentRegistry
    /\ \A op \in {"delete_tool", "view_tool_code"} :
          \A o \in {ExecuteOp(CurrentRegistry, op, [name |-> n], tnow)} :
              o.result.mark = "err" /\ ~o.raised /\ o.reg = CurrentRegistry

\* the names update_tool may be asked about: registered or not, custom or
\* built-in
UpdateNames == TargetInputs \cup {WorkerName(w) : w \in Workers}

\* the refusals of update_tool in the claim's words: the name is unknown or
\* a built-in, no field is given, or the given source has no run entry
\* point or holds a denylisted substring
UpdateInvalid(a) ==
    \/ a.name \notin DOMAIN tools
    \/ a.name \in BuiltinNames
    \/ a.description = NoneVal /\ a.parameters = NoneVal /\ a.code = NoneVal
    \/ a.code # NoneVal /\ (~HasRunMarker(a.code) \/ HasDangerousPattern(a.code))

\* the source is refused by create_tool for a fresh, well-formed name
CreateRefusesSource(c) ==
    \E o \in {CreateToolOp(Registry(BuiltinTools, EmptyDict, EmptyDict),
                            "t1", "d1", "p1", c, tnow)} :
        o.result \in {Err("no def run"), Err("dangerous")}

\* C23: update_tool on an unknown or built-in name, with no field, or with
\* a source that lacks the run entry point or holds a denylisted substring
\* returns an error string and leaves files, manifest and registry as they
\* were, whatever description and parameters come with it; the sources it
\* refuses are the ones create_tool refuses
C23_UpdateValidationMutatesNothing ==
    /\ \A n \in UpdateNames : \A a \in UpdateArgs(n) :
          UpdateInvalid(a) =>
              \A o \in {ExecuteOp(CurrentRegistry, "update_tool", a, tnow)} :
                  o.result.mark = "err" /\ ~o.raised /\ o.reg = CurrentRegistry
    /\ \A c \in Sources :
          CreateRefusesSource(c) <=> (~HasRunMarker(c) \/ HasDangerousPattern(c))

\* update_tool refused the source given for a registered custom tool, and
\* the tool still runs from the source it had
C23_Witness ==
    /\ lastOp.op = "update_tool"
    /\ lastOp.result \in {Err("no def run"), Err("dangerous")}
    /\ lastOp.name \in DOMAIN tools \ BuiltinNames
    /\ lastOp.name \in DOMAIN files
    /\ HasRunMarker(files[lastOp.name]) /\ ~HasDangerousPattern(files[lastOp.name])

\* C12: in every state reached by create/update/delete/reload (and execute)
\* calls the built-in tools, their handlers and their schemas are the ones
\* registered at startup, and update_tool, delete_tool and view_tool_code on
\* a built-in name return an error string and change nothing
C12_BuiltinImmutability ==
    /\ {n \in DOMAIN tools : tools[n].is_builtin} = BuiltinNames
    /\ \A n \in BuiltinNames : tools[n] = BuiltinTools[n]
    /\ {sch \in GetSchemas(CurrentRegistry) : sch.name \in BuiltinNames}
         = GetSchemas(Registry(BuiltinTools, EmptyDict, EmptyDict))
    /\ \A n \in BuiltinNames : RefusedEverywhere(n)

\* delete_tool was refused for a built-in while a custom tool is registered
C12_Witness ==
    /\ lastOp.op = "delete_tool"
    /\ lastOp.name \in BuiltinNames
    /\ lastOp.result = Err("builtin")
    /\ DOMAIN tools # BuiltinNames

\* what the custom-tool directory may hold when reload_tools runs: the
\* files as the registry left them, or after an edit made behind its back
FileStates ==
    {files} \cup {[n \in S |-> c] : S \in SUBSET CustomNames, c \in Sources}

\* the source loads: the module executes and has a run attribute
Loads(code) == ~ExecModuleRaises(code) /\ HasRunAttr(code)

\* the custom names of a registry map
CustomOf(T) == {n \in DOMAIN T : ~T[n].is_builtin}

\* reload_tools on the given directory content does what the claim says
ReloadAsClaimed(F) ==
    \A o \in {ReloadToolsOp(Registry(tools, manifest, F))} :
        \* built-ins are kept as they are
        /\ \A n \in DOMAIN tools :
              tools[n].is_builtin => n \in DOMAIN o.reg.tools
                                     /\ o.reg.tools[n] = tools[n]
        \* the custom registrations are exactly the loadable manifest entries
        /\ CustomOf(o.reg.tools) =
              {n \in DOMAIN manifest : n \in DOMAIN F /\ Loads(F[n])}
        /\ \A n \in CustomOf(o.reg.tools) :
              o.reg.tools[n] = [description |-> manifest[n].description,
                                parameters  |-> manifest[n].parameters,
                                function    |-> F[n],
                                is_builtin  |-> FALSE]
        /\ o.result.count = Cardinality(CustomOf(o.reg.tools))
        \* manifest and files are only read
        /\ o.reg.manifest = manifest /\ o.reg.files = F
        \* a second reload right after changes nothing
        /\ ReloadToolsOp(o.reg) = o

\* C13: reload_tools keeps every built-in, drops every custom registration
\* and registers exactly the manifest entries whose source file exists and
\* loads; a second reload with no file change in between gives the same
\* registrations as the first
C13_ReloadSemantics == \A F \in FileStates : ReloadAsClaimed(F)

\* reload_tools ran while a manifest entry's source did not load, and left
\* that entry unregistered
C13_Witness ==
    /\ lastOp.op = "reload_tools"
    /\ \E n \in DOMAIN manifest : n \in DOMAIN files /\ ~Loads(files[n])
                                  /\ n \notin DOMAIN tools

(***************************************************************************)
(* Two threads inside _create_tool (tool_manager.py has no lock)           *)
(***************************************************************************)
\* the sources the two threads pass
RaceSources == {"src_echo", "src_importerr"}

\* the manifest entry _create_tool writes
NewMeta(t) ==
    [description |-> "d1", parameters |-> "p1",
     created_at |-> IsoFormat(t), updated_at |-> IsoFormat(t)]

\* the thread enters _create_tool with some source
CrBegin(w) ==
    /\ worker[w].pc \in {"idle", "done"}
    /\ \E c \in RaceSources :
          worker' = [worker EXCEPT ![w] = [pc |-> "check", code |-> c,
                                           local |-> EmptyDict,
                                           result |-> Result("none", "")]]
    /\ UNCHANGED <<toolVars, schedVars, chatVars, memVars>>

\* the checks of the name and of the source
CrCheck(w) ==
    /\ worker[w].pc = "check"
    /\ LET name == WorkerName(w)
           code == worker[w].code
           verdict ==
               IF name \in DOMAIN tools THEN Err("tool exists")
               ELSE IF ~IsAlnumSansUnderscore(name) THEN Err("bad charset")
               ELSE IF StartsWithUnderscore(name) THEN Err("leading underscore")
               ELSE IF ~HasRunMarker(code) THEN Err("no def run")
               ELSE IF HasDangerousPattern(code) THEN Err("dangerous")
               ELSE Result("none", "")
       IN  worker' = [worker EXCEPT
                        ![w].pc = IF verdict.mark = "err" THEN "done" ELSE "file",
                        ![w].result = verdict]
    /\ UNCHANGED <<toolVars, schedVars, chatVars, memVars>>

\* code_file.write_text(code)
CrWriteFile(w) ==
    /\ worker[w].pc = "file"
    /\ files' = Put(files, WorkerName(w), worker[w].code)
    /\ worker' = [worker EXCEPT ![w].pc = "read"]
    /\ UNCHANGED <<tools, manifest, tnow, lastOp, deleted, schedVars, chatVars, memVars>>

\* manifest = json.loads(MANIFEST_FILE.read_text())
CrReadManifest(w) ==
    /\ worker[w].pc = "read"
    /\ worker' = [worker EXCEPT ![w].pc = "write", ![w].local = manifest]
    /\ UNCHANGED <<toolVars, schedVars, chatVars, memVars>>

\* manifest[name] = {...}; MANIFEST_FILE.write_text(json.dumps(manifest))
CrWriteManifest(w) ==
    /\ worker[w].pc = "write"
    /\ manifest' = Put(worker[w].local, WorkerName(w), NewMeta(tnow))
    /\ worker' = [worker EXCEPT ![w].pc = "load", ![w].local = manifest']
    /\ UNCHANGED <<tools, files, tnow, lastOp, deleted, schedVars, chatVars, memVars>>

\* the hot load: on success the tool is registered and the call returns
CrLoad(w) ==
    /\ worker[w].pc = "load"
    /\ \E ld \in {LoadSingleTool(tools, files, WorkerName(w),
                                 worker[w].local[WorkerName(w)])} :
          IF ~ld.raised
          THEN /\ tools' = ld.tools
               /\ worker' = [worker EXCEPT ![w].pc = "done",
                                           ![w].result = Ok("created")]
          ELSE /\ UNCHANGED tools
               /\ worker' = [worker EXCEPT ![w].pc = "rollback"]
    /\ UNCHANGED <<manifest, files, tnow, lastOp, deleted, schedVars, chatVars, memVars>>

\* the except branch: unlink the source, drop the entry from the thread's
\* own copy of the manifest and write that copy back
CrRollback(w) ==
    /\ worker[w].pc = "rollback"
    /\ files' = Drop(files, WorkerName(w))
    /\ manifest' = Drop(worker[w].local, WorkerName(w))
    /\ worker' = [worker EXCEPT ![w].pc = "done",
                                ![w].local = manifest',
                                ![w].result = Err("create failed")]
    /\ UNCHANGED <<tools, tnow, lastOp, deleted, schedVars, chatVars, memVars>>

RaceNext ==
    \/ \E w \in Workers : CrBegin(w)
    \/ \E w \in Workers : CrCheck(w)
    \/ \E w \in Workers : CrWriteFile(w)
    \/ \E w \in Workers : CrReadManifest(w)
    \/ \E w \in Workers : CrWriteManifest(w)
    \/ \E w \in Workers : CrLoad(w)
    \/ \E w \in Workers : CrRollback(w)

SpecRace == Init /\ [][RaceNext]_vars

\* C16: two create_tool calls for different names that run at the same time
\* in two threads are serialised: a call that returned success has its name
\* registered and present in the manifest, whatever the other thread did
C16_NoLostUpdate ==
    \A w \in Workers :
        (worker[w].pc = "done" /\ worker[w].result = Ok("created"))
        => /\ WorkerName(w) \in DOMAIN tools
           /\ WorkerName(w) \in DOMAIN manifest
           /\ WorkerName(w) \in DOMAIN files

(***************************************************************************)
(* Scheduler (scheduler.py)                                                *)
(***************************************************************************)
\* last_run = None
NoTime == <<>>

\* cron expressions a caller may pass; "every minute" is the valid one
CronInputs == {"* * * * *", "not a cron"}

\* croniter accepts the expression
CronValid(expr) == expr \in {"* * * * *", "*/2 * * * *"}

\* minutes between two fire times of the expression
CronPeriod(expr) == IF expr = "*/2 * * * *" THEN 2 ELSE 1

\* croniter(expr, t).get_next(): the first fire time after t
CronNext(expr, t) == ((t \div CronPeriod(expr)) + 1) * CronPeriod(expr)

\* Scheduler._get_next_run
GetNextRun(expr, t) == IsoFormat(CronNext(expr, t))

\* argument combinations of create_task: (task_type, prompt, command, max_runs)
ShapeInputs ==
    { <<"agent", "wake up", NoneVal, RunCap>>,
      <<"script", NoneVal, "run.sh", 0>>,
      <<"agent", NoneVal, NoneVal, 0>>,
      <<"script", NoneVal, NoneVal, 0>>,
      <<"report", NoneVal, NoneVal, 0>> }

\* the validation at the head of create_task raises ValueError
CreateTaskRejects(type, prompt, command) ==
    \/ type = "agent" /\ IsFalsy(prompt)
    \/ type = "script" /\ IsFalsy(command)

\* the slice that builds the log line raises TypeError: prompt is falsy and
\* command is None
DescriptionRaises(prompt, command) == IsFalsy(prompt) /\ command = NoneVal

\* the create_task call ends by raising, at whatever line
CreateTaskRaises(type, prompt, command, cron) ==
    \/ CreateTaskRejects(type, prompt, command)
    \/ ~CronValid(cron)
    \/ DescriptionRaises(prompt, command)

\* the task record create_task builds
NewTask(id, cron, user_id, type, prompt, command, max_runs, t) ==
    [id |-> id, type |-> type, cron |-> cron, prompt |-> prompt,
     command |-> command, max_runs |-> max_runs, run_count |-> 0,
     user_id |-> user_id, created_at |-> IsoFormat(t), last_run |-> NoTime,
     next_run |-> GetNextRun(cron, t), enabled |-> TRUE]

\* Scheduler.create_task.  It raises before touching the list when the
\* validation or croniter rejects the arguments; with neither prompt nor
\* command the description slice raises after the task was appended and saved.
CreateTask ==
    \E shape \in ShapeInputs, cron \in CronInputs :
        /\ nextId <= MaxTasks
        /\ IF CreateTaskRejects(shape[1], shape[2], shape[3]) \/ ~CronValid(cron)
           THEN UNCHANGED <<tasks, saved, nextId>>
           ELSE /\ lock = 0
                /\ tasks' = Append(tasks, NewTask(nextId, cron, 1, shape[1],
                                                  shape[2], shape[3], shape[4], now))
                /\ saved' = tasks'
                /\ nextId' = nextId + 1
        /\ UNCHANGED <<now, running, thread, loop, callback,
                       raises, dispatched, lastDue, lock, starting, toolVars, chatVars, raceVars, memVars>>

\* JSON values: what json.dump writes for a str, an int and None; a bool is
\* written as the bare word true or false
JStr(x) == [kind |-> "string", text |-> x, num |-> 0]

JNum(n) == [kind |-> "number", text |-> "", num |-> n]

JNull == [kind |-> "null", text |-> "", num |-> 0]

\* the JSON object json.dump writes for one task dict
JsonTask(t) ==
    [id         |-> JNum(t.id),
     type       |-> JStr(t.type),
     cron       |-> JStr(t.cron),
     prompt     |-> IF t.prompt = NoneVal THEN JNull ELSE JStr(t.prompt),
     command    |-> IF t.command = NoneVal THEN JNull ELSE JStr(t.command),
     max_runs   |-> JNum(t.max_runs),
     run_count  |-> JNum(t.run_count),
     user_id    |-> JNum(t.user_id),
     created_at |-> JStr(t.created_at),
     last_run   |-> IF t.last_run = NoTime THEN JNull ELSE JStr(t.last_run),
     next_run   |-> JStr(t.next_run),
     enabled    |-> [JNull EXCEPT !.kind = IF t.enabled THEN "true" ELSE "false"]]

\* what json.load builds of a JSON string or null: the text, or the value
\* that stands for None in that field
PyText(j, none) == IF j.kind = "null" THEN none ELSE j.text

\* the task dict json.load builds of one JSON object
PyTask(j) ==
    [id         |-> j.id.num,
     type       |-> PyText(j.type, NoneVal),
     cron       |-> PyText(j.cron, NoneVal),
     prompt     |-> PyText(j.prompt, NoneVal),
     command    |-> PyText(j.command, NoneVal),
     max_runs   |-> j.max_runs.num,
     run_count  |-> j.run_count.num,
     user_id    |-> j.user_id.num,
     created_at |-> PyText(j.created_at, NoTime),
     last_run   |-> PyText(j.last_run, NoTime),
     next_run   |-> PyText(j.next_run, NoTime),
     enabled    |-> j.enabled.kind = "true"]

\* Scheduler._save_tasks: the document written for a task list
TasksDocument(ts) == [tasks |-> [k \in 1..Len(ts) |-> JsonTask(ts[k])]]

\* Scheduler._load_tasks: the task list a new Scheduler reads
LoadTasks(doc) == [k \in 1..Len(doc.tasks) |-> PyTask(doc.tasks[k])]

\* a delete_task that does not write the document
DeleteTaskUnsaved ==
    \E id \in 1..MaxTasks :
        /\ lock = 0
        /\ IF \E k \in 1..Len(tasks) : tasks[k].id = id
           THEN /\ tasks' = SelectSeq(tasks, LAMBDA t : t.id # id)
                /\ UNCHANGED saved
           ELSE UNCHANGED <<tasks, saved>>
        /\ UNCHANGED <<now, running, thread, loop, callback, nextId,
                       raises, dispatched, lastDue, lock, starting, toolVars, chatVars, raceVars, memVars>>

\* Scheduler.delete_task: search, pop and save under the lock
DeleteTask ==
    \E id \in 1..MaxTasks :
        /\ lock = 0
        /\ IF \E k \in 1..Len(tasks) : tasks[k].id = id
           THEN /\ tasks' = SelectSeq(tasks, LAMBDA t : t.id # id)
                /\ saved' = tasks'
           ELSE UNCHANGED <<tasks, saved>>
        /\ UNCHANGED <<now, running, thread, loop, callback, nextId,
                       raises, dispatched, lastDue, lock, starting, toolVars, chatVars, raceVars, memVars>>

\* Scheduler.list_tasks: a copy of the list, read under the lock
ListTasks ==
    /\ lock = 0
    /\ UNCHANGED vars

\* Scheduler.get_task: a copy of the task, read under the lock
GetTask ==
    /\ lock = 0
    /\ \E id \in 1..MaxTasks : UNCHANGED vars

\* Scheduler.set_execute_callback, called while the process is set up
SetExecuteCallback ==
    /\ ~callback
    /\ thread = 0
    /\ callback' = TRUE
    /\ UNCHANGED <<tasks, saved, now, running, thread, loop, nextId,
                   raises, dispatched, lastDue, lock, starting, toolVars, chatVars, raceVars, memVars>>

\* Scheduler.start up to its test: a no-op while _running is set
Start ==
    /\ IF running
       THEN UNCHANGED starting
       ELSE /\ starting < Cardinality({i \in 1..MaxLoops : loop[i].pc = "unborn"})
            /\ starting' = starting + 1
    /\ UNCHANGED <<tasks, saved, now, running, thread, loop, callback, nextId,
                   raises, dispatched, lastDue, lock, toolVars, chatVars, raceVars, memVars>>

\* Scheduler.start past its test: _running is set and a new poll-loop
\* thread is started
StartThread ==
    /\ starting > 0
    /\ starting' = starting - 1
    /\ \E i \in 1..MaxLoops :
          /\ loop[i].pc = "unborn"
          /\ \A j \in 1..(i - 1) : loop[j].pc # "unborn"
          /\ running' = TRUE
          /\ thread' = i
          /\ loop' = [loop EXCEPT ![i].pc = "top"]
    /\ UNCHANGED <<tasks, saved, now, callback, nextId,
                   raises, dispatched, lastDue, lock, toolVars, chatVars, raceVars, memVars>>

\* Scheduler.stop: clears _running; the join returns after at most 5 seconds
Stop ==
    /\ running' = FALSE
    /\ UNCHANGED <<tasks, saved, now, thread, loop, callback, nextId,
                   raises, dispatched, lastDue, lock, starting, toolVars, chatVars, raceVars, memVars>>

\* the clock advances
Tick ==
    /\ now < MaxTime
    /\ now' = now + 1
    /\ UNCHANGED <<tasks, saved, running, thread, loop, callback, nextId,
                   raises, dispatched, lastDue, lock, starting, toolVars, chatVars, raceVars, memVars>>

\* the copies of the enabled tasks whose next_run has come
DueCopies(ts, t) ==
    SelectSeq(ts, LAMBDA k : k.enabled /\ FromIsoFormat(k.next_run) <= t)

\* the poll loop moves on to the next task of tasks_to_run, or sleeps 30
\* seconds and is back at the top of its loop
Advance(i) ==
    loop' = [loop EXCEPT ![i].queue = Tail(@),
                         ![i].pc = IF Len(loop[i].queue) > 1 THEN "dispatch"
                                                             ELSE "top"]

\* a loop written as while True: it never looks at _running
PollForever(i) ==
    /\ loop[i].pc = "top"
    /\ lock = 0
    /\ lock' = i
    /\ loop' = [loop EXCEPT ![i].pc = "scan"]
    /\ UNCHANGED <<tasks, saved, now, running, thread, callback, nextId,
                   raises, dispatched, lastDue, starting, toolVars, chatVars, raceVars, memVars>>

\* _run_loop and the head of _check_and_execute: once started or once its
\* sleep is over the loop tests _running and, if set, takes the lock
Poll(i) ==
    /\ loop[i].pc = "top"
    /\ IF running
       THEN /\ lock = 0
            /\ lock' = i
            /\ loop' = [loop EXCEPT ![i].pc = "scan"]
       ELSE /\ loop' = [loop EXCEPT ![i].pc = "done"]
            /\ UNCHANGED lock
    /\ UNCHANGED <<tasks, saved, now, running, thread, callback, nextId,
                   raises, dispatched, lastDue, starting, toolVars, chatVars, raceVars, memVars>>

\* a scan whose with block also encloses the loop over tasks_to_run: the
\* lock stays with the poll loop
ScanKeepsLock(i) ==
    /\ loop[i].pc = "scan"
    /\ LET due == DueCopies(tasks, now)
       IN  loop' = [loop EXCEPT ![i].queue = due,
                                ![i].pc = IF due = <<>> THEN "top"
                                                        ELSE "dispatch"]
    /\ lock' = IF DueCopies(tasks, now) = <<>> THEN 0 ELSE i
    /\ UNCHANGED <<tasks, saved, now, running, thread, callback, nextId,
                   raises, dispatched, lastDue, starting, toolVars, chatVars, raceVars, memVars>>

\* the with block of _check_and_execute: the due tasks are copied into
\* tasks_to_run, then the lock is released
Scan(i) ==
    /\ loop[i].pc = "scan"
    /\ LET due == DueCopies(tasks, now)
       IN  loop' = [loop EXCEPT ![i].queue = due,
                                ![i].pc = IF due = <<>> THEN "top"
                                                        ELSE "dispatch"]
    /\ lock' = 0
    /\ UNCHANGED <<tasks, saved, now, running, thread, callback, nextId,
                   raises, dispatched, lastDue, starting, toolVars, chatVars, raceVars, memVars>>

\* _execute_script starts a subprocess for the task: the command is not empty
Spawns(task) == ~IsFalsy(task.command)

\* a dispatch that hands every task to the callback, whatever its type
DispatchAllToCallback(i) ==
    /\ loop[i].pc = "dispatch"
    /\ LET task == loop[i].queue[1]
       IN  /\ dispatched' = [dispatched EXCEPT ![task.id] = @ + 1]
           /\ lastDue' = [lastDue EXCEPT ![task.id] = task.next_run]
           /\ loop' = [loop EXCEPT ![i].pc = IF callback THEN "incall" ELSE "book"]
    /\ UNCHANGED <<tasks, saved, now, running, thread, callback, nextId,
                   raises, lock, starting, toolVars, chatVars, raceVars, memVars>>

\* _execute_task up to the call: a script task is spawned without waiting (a
\* failing spawn is caught inside _execute_script), any other task enters the
\* callback when one is set
Dispatch(i) ==
    /\ loop[i].pc = "dispatch"
    /\ LET task == loop[i].queue[1]
       IN  /\ dispatched' = [dispatched EXCEPT ![task.id] = @ + 1]
           /\ lastDue' = [lastDue EXCEPT ![task.id] = task.next_run]
           /\ loop' = [loop EXCEPT ![i].pc =
                          IF task.type # "script" /\ callback THEN "incall"
                                                               ELSE "book"]
    /\ UNCHANGED <<tasks, saved, now, running, thread, callback, nextId,
                   raises, lock, starting, toolVars, chatVars, raceVars, memVars>>

\* the callback returns normally
CallReturns(i) ==
    /\ loop[i].pc = "incall"
    /\ loop' = [loop EXCEPT ![i].pc = "book"]
    /\ UNCHANGED <<tasks, saved, now, running, thread, callback, nextId,
                   raises, dispatched, lastDue, lock, starting, toolVars, chatVars, raceVars, memVars>>

\* the callback raises: the except clause of _execute_task logs it
CallRaises(i) ==
    /\ loop[i].pc = "incall"
    /\ raises < MaxRaises
    /\ raises' = raises + 1
    /\ Advance(i)
    /\ UNCHANGED <<tasks, saved, now, running, thread, callback, nextId,
                   dispatched, lastDue, lock, starting, toolVars, chatVars, raceVars, memVars>>

\* the update of one stored task after its dispatch
BookTask(t, tm) ==
    LET count == t.run_count + 1
    IN  IF t.max_runs > 0 /\ count >= t.max_runs
        THEN [t EXCEPT !.run_count = count, !.last_run = IsoFormat(tm),
                       !.enabled = FALSE]
        ELSE [t EXCEPT !.run_count = count, !.last_run = IsoFormat(tm),
                       !.next_run = GetNextRun(t.cron, tm)]

\* a bookkeeping that takes the task out of the list and appends its
\* updated record
BookkeepMovesToEnd(ts, id, tm) ==
    SelectSeq(ts, LAMBDA t : t.id # id)
    \o [k \in 1..Len(SelectSeq(ts, LAMBDA t : t.id = id)) |->
           BookTask(SelectSeq(ts, LAMBDA t : t.id = id)[k], tm)]

\* the loop over self._tasks that updates the task with the dispatched id
Bookkeep(ts, id, tm) ==
    [k \in 1..Len(ts) |-> IF ts[k].id = id THEN BookTask(ts[k], tm) ELSE ts[k]]

\* _execute_task after the call: the lock is taken for the bookkeeping
BookLock(i) ==
    /\ loop[i].pc = "book"
    /\ lock = 0
    /\ lock' = i
    /\ loop' = [loop EXCEPT ![i].pc = "booking"]
    /\ UNCHANGED <<tasks, saved, now, running, thread, callback, nextId,
                   raises, dispatched, lastDue, starting, toolVars, chatVars, raceVars, memVars>>

\* a bookkeeping that stores the dispatched copy again when the list no
\* longer holds its id
BookWritesCopyBack(i) ==
    /\ loop[i].pc = "booking"
    /\ tasks' = IF \E k \in 1..Len(tasks) : tasks[k].id = loop[i].queue[1].id
                THEN Bookkeep(tasks, loop[i].queue[1].id, now)
                ELSE Append(tasks, BookTask(loop[i].queue[1], now))
    /\ saved' = tasks'
    /\ Advance(i)
    /\ lock' = 0
    /\ UNCHANGED <<now, running, thread, callback, nextId,
                   raises, dispatched, lastDue, starting, toolVars, chatVars, raceVars, memVars>>

\* the with block of _execute_task: bookkeeping and save, then the lock is
\* released
Book(i) ==
    /\ loop[i].pc = "booking"
    /\ tasks' = Bookkeep(tasks, loop[i].queue[1].id, now)
    /\ saved' = tasks'
    /\ Advance(i)
    /\ lock' = 0
    /\ UNCHANGED <<now, running, thread, callback, nextId,
                   raises, dispatched, lastDue, starting, toolVars, chatVars, raceVars, memVars>>

SchedNext ==
    \/ CreateTask
    \/ DeleteTask
    \/ ListTasks
    \/ GetTask
    \/ SetExecuteCallback
    \/ Start
    \/ StartThread
    \/ Stop
    \/ Tick
    \/ \E i \in 1..MaxLoops : Poll(i)
    \/ \E i \in 1..MaxLoops : Scan(i)
    \/ \E i \in 1..MaxLoops : Dispatch(i)
    \/ \E i \in 1..MaxLoops : CallReturns(i)
    \/ \E i \in 1..MaxLoops : CallRaises(i)
    \/ \E i \in 1..MaxLoops : BookLock(i)
    \/ \E i \in 1..MaxLoops : Book(i)

SpecSched == Init /\ [][SchedNext]_vars

\* a poll loop thread keeps running its own code; nothing makes a callback
\* return, so the two steps that end a call carry no fairness
LoopStep(i) == Poll(i) \/ Scan(i) \/ Dispatch(i) \/ BookLock(i) \/ Book(i)

SpecSchedFair == SpecSched /\ \A i \in 1..MaxLoops : WF_vars(LoopStep(i))

\* the scheduler when every callback comes back, by returning or by raising
CallEnds(i) == CallReturns(i) \/ CallRaises(i)

\* the life of the poll-loop threads: tasks are created, the clock advances,
\* the scheduler is started and stopped, and the loops run
LifeNext ==
    \/ CreateTask
    \/ SetExecuteCallback
    \/ Start
    \/ StartThread
    \/ Stop
    \/ Tick
    \/ \E i \in 1..MaxLoops : Poll(i)
    \/ \E i \in 1..MaxLoops : Scan(i)
    \/ \E i \in 1..MaxLoops : Dispatch(i)
    \/ \E i \in 1..MaxLoops : CallReturns(i)
    \/ \E i \in 1..MaxLoops : CallRaises(i)
    \/ \E i \in 1..MaxLoops : BookLock(i)
    \/ \E i \in 1..MaxLoops : Book(i)

SpecSchedReturns ==
    /\ Init /\ [][LifeNext]_vars
    /\ \A i \in 1..MaxLoops : WF_vars(LoopStep(i)) /\ WF_vars(CallEnds(i))

(***************************************************************************)
(* Properties of the scheduler                                             *)
(***************************************************************************)
\* the stored task with this id: a singleton, or empty once deleted
Stored(ts, id) == {ts[k] : k \in {j \in 1..Len(ts) : ts[j].id = id}}

\* the poll loop is through with the task at the head of its tasks_to_run
DispatchEnds(i) ==
    /\ loop[i].pc \in {"incall", "book", "booking"}
    /\ loop'[i].pc \notin {"incall", "book", "booking"}

\* a copy of the task is still waiting in, or being handled by, a poll loop
InFlight(id) ==
    \E i \in 1..MaxLoops :
        /\ loop[i].pc \in {"dispatch", "incall", "book", "booking"}
        /\ \E k \in 1..Len(loop[i].queue) : loop[i].queue[k].id = id

\* C1: every dispatch of a due task, whether the callback or the spawn
\* returned or raised, ends with the stored task's run_count one higher,
\* last_run stamped, and next_run recomputed or the task disabled at its cap
C1_BookkeepingRegardlessOfOutcome ==
    [][ \A i \in 1..MaxLoops :
          DispatchEnds(i) =>
            \A t \in Stored(tasks, loop[i].queue[1].id) :
              \E u \in Stored(tasks', t.id) :
                /\ u.run_count = t.run_count + 1
                /\ u.last_run = IsoFormat(now)
                /\ \/ ~u.enabled /\ u.max_runs > 0 /\ u.run_count >= u.max_runs
                   \/ u.next_run = GetNextRun(u.cron, now) ]_vars

\* a capped task that has been dispatched max_runs times has run_count equal
\* to max_runs and is disabled
CapReached ==
    \A k \in 1..Len(tasks) :
        ( /\ tasks[k].max_runs > 0
          /\ dispatched[tasks[k].id] >= tasks[k].max_runs
          /\ ~InFlight(tasks[k].id) )
        => tasks[k].run_count = tasks[k].max_runs /\ ~tasks[k].enabled

\* a task disabled at its cap is not dispatched and its record does not change
FrozenAtCap ==
    \A k \in 1..Len(tasks) :
        ( /\ ~tasks[k].enabled
          /\ tasks[k].max_runs > 0
          /\ tasks[k].run_count >= tasks[k].max_runs )
        => /\ dispatched'[tasks[k].id] = dispatched[tasks[k].id]
           /\ \A u \in Stored(tasks', tasks[k].id) : u = tasks[k]

\* C4: a task with max_runs = N > 0 has, after N due-poll cycles, run_count
\* = N and enabled = false; from then on it stays disabled, is never
\* dispatched again, and next_run, last_run and run_count never change
C4_RunCap == [][CapReached' /\ FrozenAtCap]_vars

\* C5: between two dispatches of the same task its next_run has moved to a
\* later fire time, also when the first dispatch's callback raised
C5_OncePerOccurrence ==
    [][ \A id \in 1..MaxTasks :
          (dispatched'[id] = dispatched[id] + 1 /\ lastDue[id] # NoTime)
          => FromIsoFormat(lastDue'[id]) > FromIsoFormat(lastDue[id]) ]_vars

\* some poll loop is inside the agent callback
InCallback == \E i \in 1..MaxLoops : loop[i].pc = "incall"

\* the lock is free, or its holder is inside one of the two with blocks of
\* the poll loop and its next step releases the lock
HolderReleases ==
    lock # 0 =>
        /\ loop[lock].pc \in {"scan", "booking"}
        /\ ENABLED (lock' = 0 /\ (Scan(lock) \/ Book(lock)))

\* C14: the scan of the task list runs with the lock held and leaves copies
\* of the due tasks in tasks_to_run; a poll loop that is about to spawn a
\* script or is inside the callback does not hold the lock; whoever holds
\* the lock releases it with its next step, so that create_task,
\* list_tasks, get_task and delete_task, which wait for nothing but the
\* lock, can run while a callback is executing
C14_LockDiscipline ==
    /\ [](\A i \in 1..MaxLoops :
             loop[i].pc \in {"dispatch", "incall"} => lock # i)
    /\ []HolderReleases
    /\ []((InCallback /\ lock = 0) =>
             ENABLED ListTasks /\ ENABLED GetTask /\ ENABLED DeleteTask)
    /\ [][\A i \in 1..MaxLoops :
             loop'[i].queue # loop[i].queue /\ loop[i].pc = "scan"
                => lock = i /\ loop'[i].queue = DueCopies(tasks, now)]_vars

\* one poll loop sits in the callback while another holds the lock
C14_Witness ==
    \E i \in 1..MaxLoops :
        /\ loop[i].pc = "incall"
        /\ lock # 0
        /\ lock # i

\* poll loop i is inside the callback of the first task of its cycle and
\* task b waits behind it in the same tasks_to_run, dispatched n times so far
WaitsBehindCall(i, b, n) ==
    /\ loop[i].pc = "incall"
    /\ Len(loop[i].queue) > 1
    /\ loop[i].queue[2].id = b
    /\ dispatched[b] = n

\* C15: when two tasks are due in the same poll cycle and the poll loop is
\* inside the callback of the first, the second is dispatched all the same,
\* whether or not that callback ever returns
C15_HangingCallbackBlocksNobody ==
    \A i \in 1..MaxLoops, b \in 1..MaxTasks, n \in 0..MaxTime :
        WaitsBehindCall(i, b, n) ~> (dispatched[b] > n)

\* a poll-loop thread comes to life in this step
LoopStarted == \E i \in 1..MaxLoops : loop[i].pc = "unborn" /\ loop'[i].pc # "unborn"

\* a poll loop thread that has been started and has not left _run_loop
Alive(i) == loop[i].pc \notin {"unborn", "done"}

\* a poll loop begins a poll cycle in this step
BeginsCycle(i) == loop[i].pc = "top" /\ loop'[i].pc = "scan"

\* C18: stop() clears the running flag and never waits for the poll loop,
\* not even for one inside a callback; while the flag stays cleared no loop
\* begins a poll cycle, and when callbacks come back every started loop has
\* left _run_loop at some later moment unless a start() sets the flag again
C18_StopEndsLoop ==
    /\ [](ENABLED Stop)
    /\ [][Stop => ~running']_vars
    /\ [][~running => \A i \in 1..MaxLoops : ~BeginsCycle(i)]_vars
    /\ (~running /\ \E i \in 1..MaxLoops : Alive(i))
          ~> (running \/ \A i \in 1..MaxLoops : ~Alive(i))

\* stop() was called while a poll loop was inside a callback, and another
\* poll loop has already left _run_loop
C18_Witness ==
    /\ ~running
    /\ \E i \in 1..MaxLoops : loop[i].pc = "incall"
    /\ \E i \in 1..MaxLoops : loop[i].pc = "done" /\ dispatched # [b \in 1..MaxTasks |-> 0]

\* C19: every enabled task's next_run is a fire time of its cron expression
\* that is not before the current time
C19_NextRunNotPast ==
    \A k \in 1..Len(tasks) :
        tasks[k].enabled =>
            /\ FromIsoFormat(tasks[k].next_run) % CronPeriod(tasks[k].cron) = 0
            /\ FromIsoFormat(tasks[k].next_run) >= now

\* C20: every task in the list is an agent task with a prompt and no command
\* or a script task with a command and no prompt
C20_TaskShape ==
    \A k \in 1..Len(tasks) :
        \/ /\ tasks[k].type = "agent"
           /\ ~IsFalsy(tasks[k].prompt)
           /\ tasks[k].command = NoneVal
        \/ /\ tasks[k].type = "script"
           /\ ~IsFalsy(tasks[k].command)
           /\ tasks[k].prompt = NoneVal

\* the tasks of the list new that the list old does not hold
Entering(old, new) ==
    {new[k] : k \in {j \in 1..Len(new) : Stored(old, new[j].id) = {}}}

\* C21: a create_task call that raises changes neither the task list nor the
\* saved document: no task enters either from a call that raised
C21_RaisingCreateMutatesNothing ==
    [][\A t \in Entering(tasks, tasks') \cup Entering(saved, saved') :
           ~CreateTaskRaises(t.type, t.prompt, t.command, t.cron)]_vars

\* poll loop i dispatches the task at the head of its tasks_to_run in this step
Dispatches(i) ==
    /\ loop[i].pc = "dispatch"
    /\ loop'[i] # loop[i]

\* the dispatch of this step calls the callback: the loop is inside it next
CallsBack(i) == loop'[i].pc = "incall"

\* the dispatch of this step starts the subprocess of _execute_script
SpawnsNow(i) == loop[i].queue[1].type = "script" /\ Spawns(loop[i].queue[1])

\* C22: a dispatch of an agent task calls the registered callback once with
\* the task record, prompt included, and starts no subprocess; a dispatch of
\* a script task starts its command once, does not wait for it and does not
\* call the callback
C22_TypeDispatch ==
    [][\A i \in 1..MaxLoops :
          Dispatches(i) =>
            /\ dispatched'[loop[i].queue[1].id] = dispatched[loop[i].queue[1].id] + 1
            /\ (loop[i].queue[1].type = "agent" /\ callback) =>
                  /\ CallsBack(i)
                  /\ loop'[i].queue = loop[i].queue
                  /\ ~IsFalsy(loop[i].queue[1].prompt)
                  /\ ~SpawnsNow(i)
            /\ loop[i].queue[1].type = "script" =>
                  /\ SpawnsNow(i)
                  /\ ~CallsBack(i)
                  /\ loop'[i].pc = "book"]_vars

\* a poll loop is inside the callback for an agent task after a script task
\* has been dispatched
C22_Witness ==
    /\ \E i \in 1..MaxLoops :
          loop[i].pc = "incall" /\ loop[i].queue[1].type = "agent"
    /\ \E k \in 1..Len(tasks) :
          tasks[k].type = "script" /\ dispatched[tasks[k].id] > 0

\* C17: start() is idempotent: no poll loop is started while the scheduler is
\* already running, whether the start() calls come one after the other or
\* at the same time
C17_StartIdempotent == [][LoopStarted => ~running]_vars

(***************************************************************************)
(* The conversation loop (agent.py, chat)                                  *)
(***************************************************************************)
\* the ceiling on the length of a tool result that enters the transcript
ResultLimit == 10000

\* a message content: text pieces (a string is the concatenation of its
\* pieces, the empty string has none), whether it is a multi-part image
\* message, the tool_use blocks and the tool_result blocks it carries
Content(text, image, calls, results) ==
    [text |-> text, image |-> image, calls |-> calls, results |-> results]

TextContent(text) == Content(text, FALSE, <<>>, <<>>)

Turn(role, content) == [role |-> role, content |-> content]

\* the user_message values a caller may pass: a string, and a multi-part
\* image message with and without a text part
UserMessages ==
    {TextContent(<<"hi">>), Content(<<"look">>, TRUE, <<>>, <<>>),
     Content(<<>>, TRUE, <<>>, <<>>)}

\* the history values a caller may pass: none, an empty list, and a list
\* holding one earlier exchange
HistoryInputs ==
    {[given |-> FALSE, turns |-> <<>>],
     [given |-> TRUE, turns |-> <<>>],
     [given |-> TRUE,
      turns |-> <<Turn("user", TextContent(<<"earlier">>)),
                  Turn("assistant", TextContent(<<"reply">>))>>]}

\* if history is None: history = []
HistoryOrEmpty(h) == IF h.given THEN h.turns ELSE <<>>

\* history.append(turn); messages = history: one list object under two names
BindMessagesInPlace(hist, turn) ==
    [history |-> Append(hist, turn), messages |-> Append(hist, turn),
     aliased |-> TRUE]

\* messages = history + [turn]: a new list object, history is not touched
BindMessages(hist, turn) ==
    [history |-> hist, messages |-> Append(hist, turn), aliased |-> FALSE]

\* while iteration <= max_iterations
LoopContinuesInclusive(i, max) == i <= max

\* while iteration < max_iterations
LoopContinues(i, max) == i < max

\* the tool calls the model backend may request
CallCreate ==
    [name |-> "create_tool",
     input |-> [name |-> "t1", description |-> "d1", parameters |-> "p1",
                code |-> "src_echo"]]

CallRunLong == [name |-> "t1", input |-> [x |-> "s_long"]]

CallRunShort == [name |-> "t1", input |-> [x |-> "s_hello"]]

CallRunLimit == [name |-> "t1", input |-> [x |-> "s_limit"]]

CallDelete == [name |-> "delete_tool", input |-> [name |-> "t1"]]

CallUpdate ==
    [name |-> "update_tool", input |-> [name |-> "t1", description |-> "d2"]]

\* the tool_use blocks of a response with stop_reason == "tool_use"
ToolUseResponses ==
    {<<>>, <<CallCreate>>, <<CallCreate, CallRunLong>>, <<CallRunShort>>,
     <<CallRunLimit>>, <<CallDelete>>, <<CallUpdate>>}

\* the text blocks of a response without tool calls, concatenated
FinalTexts == {<<>>, <<"answer">>}

\* what the summarisation call may do: fail, or answer with or without text
SummaryOutcomes == {"fails", "no text", "text"}

\* what the observer may do when it is called
ObserverOutcomes == {"returns", "raises"}

\* the tool_use blocks with the ids the backend gave them
WithIds(calls, round) ==
    [i \in 1..Len(calls) |->
        [id |-> <<round, i>>, name |-> calls[i].name, input |-> calls[i].input]]

\* len(result)
ResultLen(result) ==
    CASE result.text = "long"  -> ResultLimit + 1
      [] result.text = "limit" -> ResultLimit
      [] OTHER                 -> 1

\* if len(result) >= 10000: a ceiling that cuts the string of 10000 too
TruncateInclusive(result) ==
    IF ResultLen(result) >= ResultLimit
    THEN [result |-> result, kept |-> ResultLimit, marker |-> TRUE]
    ELSE [result |-> result, kept |-> ResultLen(result), marker |-> FALSE]

\* if len(result) > 10000: result = result[:10000] + marker
Truncate(result) ==
    IF ResultLen(result) > ResultLimit
    THEN [result |-> result, kept |-> ResultLimit, marker |-> TRUE]
    ELSE [result |-> result, kept |-> ResultLen(result), marker |-> FALSE]

\* messages.append(turn), seen through both names
AppendMessage(turn) ==
    /\ messages' = Append(messages, turn)
    /\ history' = IF aliased THEN Append(history, turn) ELSE history

\* return text, hist
Returned(text, hist) == [kind |-> "returned", text |-> text, history |-> hist]

\* an exception leaves chat()
RaisedOut == [kind |-> "raised", text |-> <<>>, history |-> <<>>]

\* a returned history that keeps the user message as it came
HistoryUserContentAsGiven(u) == u

\* the user turn kept in the returned history: an image message is replaced
\* by a text placeholder
HistoryUserContent(u) ==
    IF u.image
    THEN IF u.text # <<>> THEN TextContent(<<"[image] ">> \o u.text)
                          ELSE TextContent(<<"[image]">>)
    ELSE u

\* entry of chat(): the arguments, the local history and the messages list
Chat ==
    /\ chatpc = "idle"
    /\ \E h \in HistoryInputs, u \in UserMessages, m \in 0..MaxIterations,
          ob \in BOOLEAN :
          \E b \in {BindMessages(HistoryOrEmpty(h), Turn("user", u))} :
              /\ histArg' = h
              /\ user_message' = u
              /\ max_iterations' = m
              /\ on_tool_start' = ob
              /\ history' = b.history
              /\ messages' = b.messages
              /\ aliased' = b.aliased
    /\ iteration' = 0
    /\ chatpc' = "top"
    /\ UNCHANGED <<pending, tool_results, sentTools, answers, notified,
                   summaryCalls, summary, ret, toolVars, schedVars, raceVars, memVars>>

\* a loop iteration whose model call raises anthropic.APIError
BackendFails ==
    /\ chatpc = "top"
    /\ LoopContinues(iteration, max_iterations)
    /\ iteration' = iteration + 1
    /\ sentTools' = GetSchemas(CurrentRegistry)
    /\ answers' = Append(answers, "APIError")
    /\ ret' = Returned(<<"API call failed: ", "APIError">>, history)
    /\ chatpc' = "done"
    /\ UNCHANGED <<histArg, user_message, max_iterations, on_tool_start,
                   history, messages, aliased, pending, tool_results,
                   notified, summaryCalls, summary, toolVars, schedVars, raceVars, memVars>>

\* a loop whose model calls all carry the schemas computed for the first one
ToolUseSchemasOnce ==
    /\ chatpc = "top"
    /\ LoopContinues(iteration, max_iterations)
    /\ iteration' = iteration + 1
    /\ sentTools' = IF iteration = 0 THEN GetSchemas(CurrentRegistry) ELSE sentTools
    /\ answers' = Append(answers, "tool_use")
    /\ \E calls \in ToolUseResponses :
          /\ pending' = WithIds(calls, iteration')
          /\ AppendMessage(Turn("assistant",
                                Content(<<>>, FALSE, pending', <<>>)))
    /\ tool_results' = <<>>
    /\ chatpc' = "tools"
    /\ UNCHANGED <<histArg, user_message, max_iterations, on_tool_start,
                   aliased, notified, summaryCalls, summary, ret, toolVars, schedVars, raceVars, memVars>>

\* a loop iteration whose response has stop_reason == "tool_use": the
\* assistant turn is appended and the round's tool calls are extracted
ToolUse ==
    /\ chatpc = "top"
    /\ LoopContinues(iteration, max_iterations)
    /\ iteration' = iteration + 1
    /\ sentTools' = GetSchemas(CurrentRegistry)
    /\ answers' = Append(answers, "tool_use")
    /\ \E calls \in ToolUseResponses :
          /\ pending' = WithIds(calls, iteration')
          /\ AppendMessage(Turn("assistant",
                                Content(<<>>, FALSE, pending', <<>>)))
    /\ tool_results' = <<>>
    /\ chatpc' = "tools"
    /\ UNCHANGED <<histArg, user_message, max_iterations, on_tool_start,
                   aliased, notified, summaryCalls, summary, ret, toolVars, schedVars, raceVars, memVars>>

\* a pass of the for loop whose observer call stands outside any try: an
\* observer that raises ends chat() and the tool's result is lost
RunToolObserverUnguarded ==
    /\ chatpc = "tools"
    /\ pending # <<>>
    /\ \E ob \in ObserverOutcomes :
          notified' = IF on_tool_start
                      THEN [calls |-> notified.calls + 1, last |-> ob]
                      ELSE notified
    /\ \E o \in {DoExecute(Head(pending).name, Head(pending).input)} :
          /\ tools' = o.tools
          /\ manifest' = o.manifest
          /\ files' = o.files
          /\ lastOp' = o.lastOp
          /\ deleted' = o.deleted
          /\ IF o.lastOp.raised \/ notified'.last = "raises"
             THEN /\ chatpc' = "done"
                  /\ ret' = RaisedOut
                  /\ UNCHANGED <<pending, tool_results>>
             ELSE /\ tool_results' =
                        Append(tool_results,
                               [type |-> "tool_result",
                                tool_use_id |-> Head(pending).id,
                                content |-> Truncate(o.lastOp.result)])
                  /\ pending' = Tail(pending)
                  /\ UNCHANGED <<chatpc, ret>>
    /\ UNCHANGED <<histArg, user_message, max_iterations, on_tool_start,
                   history, messages, aliased, iteration, sentTools, answers,
                   summaryCalls, summary, tnow, schedVars, raceVars, memVars>>

\* one pass of the for loop over tool_calls: the observer is told, the tool
\* is executed through the registry, the result is truncated and collected
RunTool ==
    /\ chatpc = "tools"
    /\ pending # <<>>
    /\ \E ob \in ObserverOutcomes :
          notified' = IF on_tool_start
                      THEN [calls |-> notified.calls + 1, last |-> ob]
                      ELSE notified
    /\ \E o \in {DoExecute(Head(pending).name, Head(pending).input)} :
          /\ tools' = o.tools
          /\ manifest' = o.manifest
          /\ files' = o.files
          /\ lastOp' = o.lastOp
          /\ deleted' = o.deleted
          /\ IF o.lastOp.raised
             THEN /\ chatpc' = "done"
                  /\ ret' = RaisedOut
                  /\ UNCHANGED <<pending, tool_results>>
             ELSE /\ tool_results' =
                        Append(tool_results,
                               [type |-> "tool_result",
                                tool_use_id |-> Head(pending).id,
                                content |-> Truncate(o.lastOp.result)])
                  /\ pending' = Tail(pending)
                  /\ UNCHANGED <<chatpc, ret>>
    /\ UNCHANGED <<histArg, user_message, max_iterations, on_tool_start,
                   history, messages, aliased, iteration, sentTools, answers,
                   summaryCalls, summary, tnow, schedVars, raceVars, memVars>>

\* a round that puts every result into a user turn of its own
EndToolRoundSplit ==
    /\ chatpc = "tools"
    /\ pending = <<>>
    /\ \E turns \in {[j \in 1..Len(tool_results) |->
                        Turn("user", Content(<<>>, FALSE, <<>>, <<tool_results[j]>>))]} :
          /\ messages' = messages \o turns
          /\ history' = IF aliased THEN history \o turns ELSE history
    /\ chatpc' = "top"
    /\ UNCHANGED <<histArg, user_message, max_iterations, on_tool_start,
                   aliased, iteration, pending, tool_results, sentTools,
                   answers, notified, summaryCalls, summary, ret, toolVars, schedVars, raceVars, memVars>>

\* after the for loop: the results enter the transcript as one user turn
EndToolRound ==
    /\ chatpc = "tools"
    /\ pending = <<>>
    /\ AppendMessage(Turn("user", Content(<<>>, FALSE, <<>>, tool_results)))
    /\ chatpc' = "top"
    /\ UNCHANGED <<histArg, user_message, max_iterations, on_tool_start,
                   aliased, iteration, pending, tool_results, sentTools,
                   answers, notified, summaryCalls, summary, ret, toolVars, schedVars, raceVars, memVars>>

\* a loop iteration whose response requests no tool: the final text and
\* the input history extended by the user turn and the assistant turn
FinalAnswer ==
    /\ chatpc = "top"
    /\ LoopContinues(iteration, max_iterations)
    /\ iteration' = iteration + 1
    /\ sentTools' = GetSchemas(CurrentRegistry)
    /\ answers' = Append(answers, "end_turn")
    /\ \E final_text \in FinalTexts :
          ret' = Returned(final_text,
                          history \o
                            <<Turn("user", HistoryUserContent(user_message)),
                              Turn("assistant", TextContent(final_text))>>)
    /\ chatpc' = "done"
    /\ UNCHANGED <<histArg, user_message, max_iterations, on_tool_start,
                   history, messages, aliased, pending, tool_results,
                   notified, summaryCalls, summary, toolVars, schedVars, raceVars, memVars>>

\* a summarisation call outside any try: its failure leaves chat()
SummarizeUnguarded ==
    /\ chatpc = "top"
    /\ ~LoopContinues(iteration, max_iterations)
    /\ summaryCalls' = summaryCalls + 1
    /\ \E outcome \in SummaryOutcomes :
          /\ summary' = outcome
          /\ ret' = CASE outcome = "fails" -> RaisedOut
                     [] outcome = "no text" ->
                          Returned(<<"task too complex, summary: ">>, history)
                     [] OTHER ->
                          Returned(<<"task too complex, summary: ", "summary">>,
                                   history)
    /\ chatpc' = "done"
    /\ UNCHANGED <<histArg, user_message, max_iterations, on_tool_start,
                   history, messages, aliased, iteration, pending,
                   tool_results, sentTools, answers, notified,
                   toolVars, schedVars, raceVars, memVars>>

\* the loop test fails: one summarisation call, whose failure is answered
\* with the generic message
Summarize ==
    /\ chatpc = "top"
    /\ ~LoopContinues(iteration, max_iterations)
    /\ summaryCalls' = summaryCalls + 1
    /\ \E outcome \in SummaryOutcomes :
          /\ summary' = outcome
          /\ ret' = CASE outcome = "fails" ->
                          Returned(<<"task too complex, split it">>, history)
                     [] outcome = "no text" ->
                          Returned(<<"task too complex, summary: ">>, history)
                     [] OTHER ->
                          Returned(<<"task too complex, summary: ", "summary">>,
                                   history)
    /\ chatpc' = "done"
    /\ UNCHANGED <<histArg, user_message, max_iterations, on_tool_start,
                   history, messages, aliased, iteration, pending,
                   tool_results, sentTools, answers, notified,
                   toolVars, schedVars, raceVars, memVars>>

ChatNext ==
    \/ Chat
    \/ BackendFails
    \/ ToolUse
    \/ RunTool
    \/ EndToolRound
    \/ FinalAnswer
    \/ Summarize

SpecChat == Init /\ [][ChatNext]_vars

\* chat() is one sequential call: it keeps taking its next step
SpecChatFair == SpecChat /\ WF_vars(ChatNext)

(***************************************************************************)
(* Properties of the conversation loop                                     *)
(***************************************************************************)
\* the backend has answered every loop call so far with a tool-use request
AlwaysToolUse == \A i \in 1..Len(answers) : answers[i] = "tool_use"

\* the state chat() returns in when only tool-use requests were answered
AtCap ==
    (chatpc = "done" /\ AlwaysToolUse) =>
        /\ Len(answers) = max_iterations
        /\ summaryCalls = 1
        /\ ret.kind = "returned"
        /\ ret.text # <<>>

\* C6: with a backend that answers every call with a tool-use request,
\* chat() makes exactly max_iterations model calls in the loop (never more
\* on the way), then exactly one summarisation call, and returns a
\* non-empty string without raising; and it does return
C6_TerminationAtCap ==
    /\ [](AtCap /\ (AlwaysToolUse => Len(answers) <= max_iterations))
    /\ [](chatpc # "done" => summaryCalls = 0)
    /\ <>(chatpc = "done" \/ ~AlwaysToolUse)

\* chat() returned from the cap after several tool rounds
C6_Witness ==
    /\ chatpc = "done"
    /\ AlwaysToolUse
    /\ max_iterations >= 2
    /\ Len(answers) = max_iterations
    /\ summaryCalls = 1

\* the last model call of the loop failed
BackendFailed ==
    /\ chatpc = "done"
    /\ answers # <<>>
    /\ answers[Len(answers)] = "APIError"

\* C7: when a model call fails, at the first iteration or after tool
\* rounds, chat() returns at once (no further model call, no summarisation
\* call, no tool run) a formatted error string and the history it was given
\* (the empty history when none was given), and the caller's list still
\* holds what it held at the call
C7_BackendFailureKeepsHistory ==
    BackendFailed =>
        /\ ret.kind = "returned"
        /\ ret.text = <<"API call failed: ", "APIError">>
        /\ ret.history = HistoryOrEmpty(histArg)
        /\ history = HistoryOrEmpty(histArg)
        /\ iteration = Len(answers)
        /\ summaryCalls = 0
        /\ \A i \in 1..(Len(answers) - 1) : answers[i] = "tool_use"

\* the backend failed after a tool round, on a call with a non-empty history
C7_Witness ==
    /\ BackendFailed
    /\ Len(answers) >= 2
    /\ histArg.given
    /\ histArg.turns # <<>>
    /\ Len(messages) > Len(histArg.turns) + 2

\* a model call of the loop is made in this step
ModelCall == iteration' = iteration + 1

\* the names the schemas of the last model call list
SentNames == {sc.name : sc \in sentTools}

\* C24: every model call of the loop carries the schemas computed at that
\* call: they list exactly the tools registered at that moment, with their
\* current descriptions and parameters, so the effect of a create, delete,
\* update or reload in one iteration shows in the call of the next
C24_SchemasAreLive ==
    [][ModelCall =>
          /\ sentTools' = GetSchemas(CurrentRegistry)
          /\ {sc.name : sc \in sentTools'} = DOMAIN tools
          /\ \A sc \in sentTools' :
                /\ sc.description = tools[sc.name].description
                /\ sc.input_schema = tools[sc.name].parameters
          /\ (lastOp.op = "create_tool" /\ lastOp.result = Ok("created"))
                => lastOp.name \in {sc.name : sc \in sentTools'}
          /\ (lastOp.op = "delete_tool" /\ lastOp.result = Ok("deleted"))
                => lastOp.name \notin {sc.name : sc \in sentTools'}]_vars

\* the second model call of a chat() carried the schema of a custom tool
\* that a tool call of the first iteration had created
C24_Witness ==
    /\ iteration >= 2
    /\ sentTools # GetSchemas(Registry(BuiltinTools, EmptyDict, EmptyDict))
    /\ \E n \in CustomNames : n \in SentNames /\ n \in DOMAIN tools

\* the ids of the tool_use blocks, and of the tool_result blocks, in order
CallIds(calls) == [j \in 1..Len(calls) |-> calls[j].id]

ResultIds(results) == [j \in 1..Len(results) |-> results[j].tool_use_id]

\* inside a tool round: the transcript ends with the assistant's tool-use
\* turn, and the requests of that turn are the ones already answered, in
\* order, followed by the ones still waiting
MidRound ==
    chatpc = "tools" =>
        /\ messages[Len(messages)].role = "assistant"
        /\ CallIds(messages[Len(messages)].content.calls)
              = ResultIds(tool_results) \o CallIds(pending)
        /\ \A j \in 1..Len(pending) :
              pending[j] = messages[Len(messages)].content.calls[Len(tool_results) + j]

\* before a model call that follows a tool round: the transcript ends with
\* the assistant's tool-use turn and, directly after it, one user turn that
\* holds one tool_result per request, in request order, under the same ids
AfterRound ==
    (chatpc = "top" /\ iteration > 0) =>
        /\ Len(messages) >= 2
        /\ messages[Len(messages) - 1].role = "assistant"
        /\ messages[Len(messages)].role = "user"
        /\ messages[Len(messages)].content.results = tool_results
        /\ messages[Len(messages)].content.calls = <<>>
        /\ ResultIds(tool_results)
              = CallIds(messages[Len(messages) - 1].content.calls)

\* a step of the for loop runs the request at the head of the waiting ones
\* through execute, once, and collects its result under the request's id
RunsHead ==
    /\ lastOp'.op = Head(pending).name
    /\ pending' = Tail(pending)
    /\ tool_results' = Append(tool_results,
                              [type |-> "tool_result",
                               tool_use_id |-> Head(pending).id,
                               content |-> Truncate(lastOp'.result)])
    /\ messages' = messages

\* C25: in a tool round every requested call is executed once through the
\* registry, in request order, and the results enter the transcript as one
\* user turn with one tool_result per request under the matching id,
\* directly after the assistant's tool-use turn and before the next model
\* call
C25_ToolRoundProtocol ==
    /\ [](MidRound /\ AfterRound)
    /\ [][(chatpc = "tools" /\ pending # <<>>) => RunsHead]_vars
    /\ [][(lastOp' # lastOp \/ tools' # tools \/ tool_results' # tool_results)
            => (chatpc = "tools" /\ pending # <<>>) \/ tool_results' = <<>>]_vars

\* a round of two requests has ended: both results stand in one user turn
C25_Witness ==
    /\ chatpc = "top"
    /\ iteration > 0
    /\ Len(tool_results) = 2
    /\ messages[Len(messages)].content.results = tool_results
    /\ tool_results[1].tool_use_id # tool_results[2].tool_use_id

\* the contents of the tool_result blocks of a list of blocks
ContentsOf(results) == {results[j].content : j \in 1..Len(results)}

\* the tool_result contents of the transcript and of the round under way
TranscriptResults ==
    ContentsOf(tool_results)
        \cup UNION {ContentsOf(messages[k].content.results) : k \in 1..Len(messages)}

\* C26: a tool result longer than 10000 characters stands in the transcript
\* as its first 10000 characters followed by the truncation marker; a
\* result of 10000 characters or fewer stands there unchanged
C26_ResultTruncation ==
    \A c \in TranscriptResults :
        IF ResultLen(c.result) > ResultLimit
        THEN c.kept = ResultLimit /\ c.marker
        ELSE c.kept = ResultLen(c.result) /\ ~c.marker

\* the transcript holds a result that was cut and one of exactly 10000
\* characters that was not
C26_Witness ==
    /\ \E c \in TranscriptResults : ResultLen(c.result) = ResultLimit + 1 /\ c.marker
    /\ \E c \in TranscriptResults : ResultLen(c.result) = ResultLimit /\ ~c.marker

\* chat() has returned after a response that requested no tool
FinalAnswered ==
    /\ chatpc = "done"
    /\ answers # <<>>
    /\ answers[Len(answers)] = "end_turn"

\* the content is plain text: no image part, no tool_use, no tool_result
PlainText(c) == ~c.image /\ c.calls = <<>> /\ c.results = <<>>

\* the user turn of a returned history stands for the user message: the
\* message itself when it is a string, a text placeholder that starts with
\* the image tag and carries the message's text parts when it is multi-part
StandsFor(c, u) ==
    IF u.image
    THEN /\ PlainText(c)
         /\ c.text # <<>>
         /\ SubSeq(c.text, 2, Len(c.text)) = u.text
    ELSE c = u

\* C27: on a final answer chat() returns the input history plus two turns,
\* the user turn (an image message replaced by a text placeholder) and the
\* assistant's final text, and none of the tool-use or tool-result turns
\* of the call; on a backend error or at the iteration cap it returns the
\* input history
C27_ReturnedTranscript ==
    (chatpc = "done" /\ ret.kind = "returned") =>
        IF FinalAnswered
        THEN /\ Len(ret.history) = Len(HistoryOrEmpty(histArg)) + 2
             /\ SubSeq(ret.history, 1, Len(HistoryOrEmpty(histArg)))
                   = HistoryOrEmpty(histArg)
             /\ ret.history[Len(ret.history) - 1].role = "user"
             /\ StandsFor(ret.history[Len(ret.history) - 1].content, user_message)
             /\ ret.history[Len(ret.history)]
                   = Turn("assistant", TextContent(ret.text))
        ELSE ret.history = HistoryOrEmpty(histArg)

\* a final answer came after a tool round, for an image message, on a call
\* with a non-empty history
C27_Witness ==
    /\ FinalAnswered
    /\ Len(answers) >= 2
    /\ user_message.image
    /\ histArg.turns # <<>>
    /\ Len(messages) > Len(ret.history)

\* the registry after this step is the one a plain execute of the request at
\* the head of the waiting ones leaves
ExecutesHead ==
    \E o \in {DoExecute(Head(pending).name, Head(pending).input)} :
        /\ tools' = o.tools
        /\ manifest' = o.manifest
        /\ files' = o.files
        /\ lastOp' = o.lastOp

\* C28: whether there is no observer, or the observer returns, or it
\* raises, a pass of the for loop executes the requested tool once, collects
\* its result and goes on: chat() neither ends nor raises because of the
\* observer, and what it returns and the history it keeps are untouched
C28_ObserverNeverMatters ==
    /\ [][(chatpc = "tools" /\ pending # <<>>) =>
             /\ ExecutesHead
             /\ RunsHead
             /\ chatpc' = "tools"
             /\ ret' = ret
             /\ history' = history]_vars
    /\ [](ret.kind # "raised")
    /\ [](notified.calls > 0 => on_tool_start)

\* the observer raised on the last tool call of a chat() that went on to a
\* final answer, and the call's result stands in the transcript
C28_Witness ==
    /\ FinalAnswered
    /\ notified.last = "raises"
    /\ notified.calls >= 2
    /\ tool_results # <<>>
    /\ messages[Len(messages)].content.results = tool_results

\* C29: whatever the backend answers (final answer, tool request, failure)
\* and whatever the tools do, chat() comes back with a text and a history
\* and no exception leaves it; when the cap is reached and the
\* summarisation call fails as well, the text is the generic message
C29_ChatNeverRaises ==
    /\ [](chatpc = "done" => ret.kind = "returned" /\ ret.text \in Seq(STRING))
    /\ [](chatpc # "done" => ret.kind = "none")
    /\ []((chatpc = "done" /\ summary = "fails") =>
             /\ ret.text = <<"task too complex, split it">>
             /\ Len(answers) = max_iterations
             /\ AlwaysToolUse)
    /\ (chatpc # "idle") ~> (chatpc = "done")

\* the cap was reached after tool rounds that ran tools, and the
\* summarisation call failed
C29_Witness ==
    /\ chatpc = "done"
    /\ summary = "fails"
    /\ max_iterations >= 2
    /\ lastOp.op # "none"
    /\ ret = Returned(<<"task too complex, split it">>, HistoryOrEmpty(histArg))

(***************************************************************************)
(* The memory store (memory_manager.py)                                    *)
(***************************************************************************)
\* the categories, keys and contents a caller may pass
Categories == {"wallet", "preference", "note"}

MemKeys == {"k1", "k2"}

Contents == {"c1", "c2"}

\* the entry remember() builds
NewEntry(content, t) ==
    [content |-> content, created_at |-> IsoFormat(t), updated_at |-> IsoFormat(t)]

\* MemoryManager.remember: the memories afterwards
RememberOp(mem, category, key, content, t) ==
    LET M0 == IF category \notin DOMAIN mem THEN Put(mem, category, EmptyDict)
                                            ELSE mem
    IN  Put(M0, category, Put(M0[category], key, NewEntry(content, t)))

\* a forget that leaves the emptied category in the store
ForgetOpKeepsCategory(mem, category, key) ==
    IF category \notin DOMAIN mem
    THEN [mem |-> mem, result |-> Err("no such category"), saves |-> FALSE]
    ELSE IF key \notin DOMAIN mem[category]
    THEN [mem |-> mem, result |-> Err("no such memory"), saves |-> FALSE]
    ELSE [mem |-> Put(mem, category, Drop(mem[category], key)),
          result |-> Ok("forgotten"), saves |-> TRUE]

\* MemoryManager.forget: the memories afterwards, the returned string, and
\* whether the document was saved
ForgetOp(mem, category, key) ==
    IF category \notin DOMAIN mem
    THEN [mem |-> mem, result |-> Err("no such category"), saves |-> FALSE]
    ELSE IF key \notin DOMAIN mem[category]
    THEN [mem |-> mem, result |-> Err("no such memory"), saves |-> FALSE]
    ELSE LET items == Drop(mem[category], key)
         IN  [mem |-> IF DOMAIN items = {} THEN Drop(mem, category)
                                           ELSE Put(mem, category, items),
              result |-> Ok("forgotten"), saves |-> TRUE]

\* the number of entries in the store
Size(mem) == Cardinality({ck \in Categories \X MemKeys :
                            ck[1] \in DOMAIN mem /\ ck[2] \in DOMAIN mem[ck[1]]})

\* a sequence without the element x
Without(seq, x) == SelectSeq(seq, LAMBDA y : y # x)

\* the iteration order after remember(): a dict keeps a key where it was first
\* inserted and puts a new key last
RememberOrder(order, mem, category, key) ==
    LET fresh == category \notin DOMAIN mem
        had   == IF fresh THEN <<>> ELSE order.keys[category]
    IN  [cats |-> IF fresh THEN Append(order.cats, category) ELSE order.cats,
         keys |-> Put(order.keys, category,
                      IF ~fresh /\ key \in DOMAIN mem[category]
                      THEN had ELSE Append(had, key))]

\* the iteration order after forget(): del takes the key, and the emptied
\* category, out of the order
ForgetOrder(order, mem, category, key) ==
    IF category \notin DOMAIN mem \/ key \notin DOMAIN mem[category]
    THEN order
    ELSE LET left == Without(order.keys[category], key)
         IN  IF left = <<>>
             THEN [cats |-> Without(order.cats, category),
                   keys |-> Drop(order.keys, category)]
             ELSE [cats |-> order.cats, keys |-> Put(order.keys, category, left)]

\* priority_categories of get_core_memories
PriorityCategories == <<"wallet", "api", "secret", "preference">>

\* cat in priority_categories
IsPriority(cat) == \E i \in DOMAIN PriorityCategories : PriorityCategories[i] = cat

\* the output lines of one category, in the order of its items()
CategoryLines(mem, order, cat) ==
    [i \in 1..Len(order.keys[cat]) |->
        [category |-> cat, key |-> order.keys[cat][i],
         content |-> mem[cat][order.keys[cat][i]].content]]

RECURSIVE LinesOf(_, _, _)
\* the output lines of a sequence of categories, skipping those not stored
LinesOf(mem, order, cats) ==
    IF cats = <<>> THEN <<>>
    ELSE (IF Head(cats) \in DOMAIN mem THEN CategoryLines(mem, order, Head(cats))
                                       ELSE <<>>)
         \o LinesOf(mem, order, Tail(cats))

\* a listing in plain dict order, with no priority pass
GetCoreMemoriesDictOrder(mem, order) == LinesOf(mem, order, order.cats)

\* MemoryManager.get_core_memories: the lines of the returned string
GetCoreMemories(mem, order) ==
    LinesOf(mem, order, PriorityCategories)
    \o LinesOf(mem, order,
               SelectSeq(order.cats, LAMBDA c : ~IsPriority(c)))

\* json.dump of a dict: the sequence of its name/value pairs in iteration
\* order, each category an object of its own
JsonDump(mem, order) ==
    [i \in 1..Len(order.cats) |->
        [name  |-> order.cats[i],
         value |-> [j \in 1..Len(order.keys[order.cats[i]]) |->
                      [name  |-> order.keys[order.cats[i]][j],
                       value |-> mem[order.cats[i]][order.keys[order.cats[i]][j]]]]]]

\* the dict json.load builds of the pairs of one object: a repeated name
\* keeps its last value
ObjectOf(pairs) ==
    [n \in {pairs[i].name : i \in DOMAIN pairs} |->
        pairs[CHOOSE i \in DOMAIN pairs :
                 /\ pairs[i].name = n
                 /\ \A j \in DOMAIN pairs : pairs[j].name = n => j <= i].value]

\* the iteration order of that dict: the names in order of first appearance
NamesOf(pairs) ==
    LET firsts == SelectSeq([i \in DOMAIN pairs |-> i],
                            LAMBDA i : \A j \in 1..(i - 1) : pairs[j].name # pairs[i].name)
    IN  [i \in DOMAIN firsts |-> pairs[firsts[i]].name]

\* json.load of a memories document
JsonLoad(doc) ==
    LET top == ObjectOf(doc)
    IN  [mem   |-> [c \in DOMAIN top |-> ObjectOf(top[c])],
         order |-> [cats |-> NamesOf(doc),
                    keys |-> [c \in DOMAIN top |-> NamesOf(top[c])]]]

\* MemoryManager._save_memories: the file afterwards
SaveMemories(mem, order) == [exists |-> TRUE, doc |-> JsonDump(mem, order)]

\* MemoryManager._load_memories: an empty store when there is no file
LoadMemories(file) ==
    IF ~file.exists
    THEN [mem |-> EmptyDict, order |-> [cats |-> <<>>, keys |-> EmptyDict]]
    ELSE JsonLoad(file.doc)

\* a remember that writes the document before it changes the store
RememberSavesFirst ==
    \E category \in Categories, key \in MemKeys, content \in Contents :
        /\ \/ Size(memories) < MaxEntries
           \/ category \in DOMAIN memories /\ key \in DOMAIN memories[category]
        /\ memories' = RememberOp(memories, category, key, content, mnow)
        /\ memOrder' = RememberOrder(memOrder, memories, category, key)
        /\ memFile' = SaveMemories(memories, memOrder)
        /\ lastMem' = [op |-> "remember", category |-> category, key |-> key,
                       result |-> Ok("remembered")]
        /\ UNCHANGED <<mnow, toolVars, schedVars, chatVars, raceVars>>

\* one remember(category, key, content) call
Remember ==
    \E category \in Categories, key \in MemKeys, content \in Contents :
        /\ \/ Size(memories) < MaxEntries
           \/ category \in DOMAIN memories /\ key \in DOMAIN memories[category]
        /\ memories' = RememberOp(memories, category, key, content, mnow)
        /\ memOrder' = RememberOrder(memOrder, memories, category, key)
        /\ memFile' = SaveMemories(memories', memOrder')
        /\ lastMem' = [op |-> "remember", category |-> category, key |-> key,
                       result |-> Ok("remembered")]
        /\ UNCHANGED <<mnow, toolVars, schedVars, chatVars, raceVars>>

\* one forget(category, key) call
Forget ==
    \E category \in Categories, key \in MemKeys :
        \E o \in {ForgetOp(memories, category, key)} :
            /\ memories' = o.mem
            /\ memOrder' = ForgetOrder(memOrder, memories, category, key)
            /\ memFile' = IF o.saves THEN SaveMemories(memories', memOrder')
                                      ELSE memFile
            /\ lastMem' = [op |-> "forget", category |-> category, key |-> key,
                           result |-> o.result]
            /\ UNCHANGED <<mnow, toolVars, schedVars, chatVars, raceVars>>

\* time passes between memory calls
MemTick ==
    /\ mnow < MaxMemTime
    /\ mnow' = mnow + 1
    /\ UNCHANGED <<memories, memFile, memOrder, lastMem, toolVars, schedVars, chatVars, raceVars>>

\* one get_core_memories() call: it reads the store and changes nothing
CoreMemories ==
    /\ lastMem' = [op |-> "get_core_memories", category |-> NoneVal,
                   key |-> NoneVal,
                   result |-> IF GetCoreMemories(memories, memOrder) = <<>>
                              THEN Ok("") ELSE Ok("lines")]
    /\ UNCHANGED <<memories, memFile, memOrder, mnow, toolVars, schedVars, chatVars, raceVars>>

\* the process ends and a new MemoryManager is constructed: __init__ reads
\* the document
Restart ==
    \E o \in {LoadMemories(memFile)} :
        /\ memories' = o.mem
        /\ memOrder' = o.order
        /\ lastMem' = [op |-> "restart", category |-> NoneVal, key |-> NoneVal,
                       result |-> Ok("loaded")]
        /\ UNCHANGED <<memFile, mnow, toolVars, schedVars, chatVars, raceVars>>

MemNext ==
    \/ Remember
    \/ Forget
    \/ MemTick
    \/ CoreMemories
    \/ Restart

SpecMemory == Init /\ [][MemNext]_vars

(***************************************************************************)
(* Properties of the memory store                                          *)
(***************************************************************************)
\* the (category, key) pairs that hold an entry
Entries(mem) == {<<c, k>> \in Categories \X MemKeys :
                    c \in DOMAIN mem /\ k \in DOMAIN mem[c]}

\* C30: remember on a (category, key) that already holds an entry replaces
\* content and updated_at and keeps the created_at of the first write: an
\* entry that stays in the store never changes its created_at
C30_CreatedAtIsFirstWrite ==
    [][\A e \in Entries(memories) \cap Entries(memories') :
          memories'[e[1]][e[2]].created_at = memories[e[1]][e[2]].created_at]_vars

\* no category of the store is empty
NoEmptyCategory(mem) == \A c \in DOMAIN mem : DOMAIN mem[c] # {}

\* the categories a caller may name in forget: the known ones and one that
\* was never used
ForgetCategories == Categories \cup {"never"}

\* C31: the store never holds an empty category; forget of an existing
\* (category, key) removes that entry, drops its category when it is left
\* empty and leaves every other entry as it was; forget of an unknown
\* category or key returns an error string and changes nothing
C31_ForgetRemovesOne ==
    /\ NoEmptyCategory(memories)
    /\ DOMAIN memories \subseteq Categories
    /\ \A c \in ForgetCategories, k \in MemKeys :
          \A o \in {ForgetOp(memories, c, k)} :
              IF c \in DOMAIN memories /\ k \in DOMAIN memories[c]
              THEN /\ o.result = Ok("forgotten")
                   /\ Entries(o.mem) = Entries(memories) \ {<<c, k>>}
                   /\ \A e \in Entries(o.mem) :
                         o.mem[e[1]][e[2]] = memories[e[1]][e[2]]
                   /\ NoEmptyCategory(o.mem)
                   /\ DOMAIN o.mem \subseteq DOMAIN memories
              ELSE /\ o.result.mark = "err"
                   /\ o.mem = memories
                   /\ ~o.saves

\* forget took the last entry of a category, which is gone from the store,
\* while another category still holds its entries
C31_Witness ==
    /\ lastMem.op = "forget"
    /\ lastMem.result = Ok("forgotten")
    /\ lastMem.category \notin DOMAIN memories
    /\ memories # EmptyDict

\* where a category stands in the listing: the priority categories in their
\* fixed order, every other category after them
Rank(cat) ==
    IF IsPriority(cat)
    THEN CHOOSE i \in DOMAIN PriorityCategories : PriorityCategories[i] = cat
    ELSE Len(PriorityCategories) + 1

\* C32: the listing of get_core_memories holds every stored entry exactly
\* once, with its content, and no line of a category stands before a line of
\* a category of lower rank (wallet, api, secret, preference, then the
\* others), whatever the order in which the entries were stored
C32_CoreMemoriesOrder ==
    \E out \in {GetCoreMemories(memories, memOrder)} :
        /\ Len(out) = Cardinality(Entries(memories))
        /\ \A e \in Entries(memories) :
               \E i \in DOMAIN out :
                   /\ out[i].category = e[1] /\ out[i].key = e[2]
                   /\ out[i].content = memories[e[1]][e[2]].content
                   /\ \A j \in DOMAIN out :
                          (out[j].category = e[1] /\ out[j].key = e[2]) => j = i
        /\ \A i, j \in DOMAIN out :
               i < j => Rank(out[i].category) <= Rank(out[j].category)

\* three categories stored in the order note, preference, wallet, and then
\* listed
C32_Witness ==
    /\ memOrder.cats = <<"note", "preference", "wallet">>
    /\ lastMem.op = "get_core_memories"
    /\ lastMem.result = Ok("lines")

\* C33: at every point between memory operations the document on disk reads
\* back as the store in memory, entries and iteration order alike: a remember
\* and a successful forget leave the two equal, and a restart changes nothing
C33_MemoryDurable ==
    /\ LoadMemories(memFile).mem = memories
    /\ LoadMemories(memFile).order = memOrder

\* a store of two entries, one of them forgotten and remembered again, read
\* back by a new process
C33_Witness ==
    /\ lastMem.op = "restart"
    /\ Size(memories) >= 2
    /\ memFile.exists
    /\ \E c \in DOMAIN memories, k \in MemKeys :
           k \in DOMAIN memories[c] /\ memories[c][k].created_at # IsoFormat(0)

\* C34: every stored task with max_runs > 0 has run_count <= max_runs and has
\* been dispatched at most max_runs times
C34_RunCapNeverOvershot ==
    \A k \in 1..Len(tasks) :
        tasks[k].max_runs > 0
        => /\ tasks[k].run_count <= tasks[k].max_runs
           /\ dispatched[tasks[k].id] <= tasks[k].max_runs

\* C35: at no moment are two poll-loop threads inside _run_loop
C35_SinglePollLoop ==
    Cardinality({i \in 1..MaxLoops : Alive(i)}) <= 1

\* C36: between tool calls the registered custom tools are the tools with a
\* manifest entry; in particular no update_tool leaves a tool it found
\* registered without its registration
C36_RegistryMatchesManifest == CustomOf(tools) = DOMAIN manifest

\* C37: create_tool for a name that has a manifest entry or a source file
\* returns an error string and leaves that entry, created_at included, and
\* that file as they were, whatever the other arguments
C37_CreateNeverOverwrites ==
    \A n \in (DOMAIN manifest) \cup (DOMAIN files) :
        \A d \in Descriptions, p \in ParamSchemas, c \in Sources :
            \A o \in {ExecuteOp(CurrentRegistry, "create_tool",
                                [name |-> n, description |-> d,
                                 parameters |-> p, code |-> c], tnow)} :
                /\ o.result.mark = "err"
                /\ o.reg.manifest = manifest
                /\ o.reg.files = files

\* the ids of the tasks of a list
IdsOf(ts) == {ts[k].id : k \in 1..Len(ts)}

\* the task at the head of the loop's tasks_to_run was snapshotted as due,
\* has not been booked yet, and is no longer in the task list
HeadDeleted(i) ==
    /\ loop[i].pc \in {"dispatch", "incall", "book", "booking"}
    /\ loop[i].queue[1].id \notin IdsOf(tasks)

\* C38: a task deleted after a poll loop snapshotted it and before its
\* bookkeeping is still dispatched by that loop, exactly when the loop
\* reaches it; the bookkeeping step then changes no task and saves the list
\* as it is; and an id that has left the task list never comes back to the
\* list or to the saved document
C38_DeletionWins ==
    [][ /\ \A i \in 1..MaxLoops :
              /\ (HeadDeleted(i) /\ loop[i].pc = "dispatch" /\ loop'[i] # loop[i])
                 => /\ dispatched'[loop[i].queue[1].id]
                         = dispatched[loop[i].queue[1].id] + 1
                    /\ tasks' = tasks
              /\ (HeadDeleted(i) /\ loop[i].pc = "booking" /\ loop'[i] # loop[i])
                 => /\ tasks' = tasks
                    /\ saved' = tasks
                    /\ loop'[i].queue = Tail(loop[i].queue)
        /\ \A id \in 1..MaxTasks :
              (id < nextId /\ id \notin IdsOf(tasks))
              => id \notin IdsOf(tasks') \cup IdsOf(saved') ]_vars

\* a poll loop has dispatched the copy of a task that was deleted after the
\* scan and is inside the bookkeeping block for it, while another task is
\* still stored
C38_Witness ==
    \E i \in 1..MaxLoops :
        /\ HeadDeleted(i)
        /\ loop[i].pc = "booking"
        /\ dispatched[loop[i].queue[1].id] = 1
        /\ Len(tasks) = 1

\* the fields of a task the bookkeeping never writes
SameIdentity(t, u) ==
    /\ u.id = t.id /\ u.type = t.type /\ u.cron = t.cron
    /\ u.prompt = t.prompt /\ u.command = t.command
    /\ u.max_runs = t.max_runs /\ u.user_id = t.user_id
    /\ u.created_at = t.created_at

\* C39: the bookkeeping step for a dispatched task keeps the length and the
\* order of the task list, leaves every task with another id as it was, and
\* writes only run_count (one more), last_run, next_run and enabled of the
\* task with the dispatched id
C39_BookkeepingFrame ==
    [][ \A i \in 1..MaxLoops :
          (loop[i].pc = "booking" /\ loop'[i] # loop[i])
          => /\ Len(tasks') = Len(tasks)
             /\ \A k \in 1..Len(tasks) :
                    IF tasks[k].id = loop[i].queue[1].id
                    THEN /\ SameIdentity(tasks[k], tasks'[k])
                         /\ tasks'[k].run_count = tasks[k].run_count + 1
                         /\ DOMAIN tasks'[k] = DOMAIN tasks[k]
                    ELSE tasks'[k] = tasks[k] ]_vars

\* two tasks are stored and only the first of them has been booked
C39_Witness ==
    /\ Len(tasks) = 2
    /\ tasks[1].run_count = 1
    /\ tasks[1].last_run # tasks[2].last_run
    /\ tasks[2].run_count = 0
    /\ \A i \in 1..MaxLoops : loop[i].pc \notin {"book", "booking"}

\* C40: between scheduler operations the document last written reads back
\* as the task list in memory, every field of every task included, so a
\* Scheduler constructed at that moment holds the same tasks; saved is the
\* list handed to the last _save_tasks, empty while no file exists
C40_SchedulerDurable == LoadTasks(TasksDocument(saved)) = tasks

\* the first task was created and deleted again, the second one was created
\* and booked once, and the document holds it
C40_Witness ==
    /\ Len(saved) = 1
    /\ saved[1].id = 2
    /\ saved[1].run_count = 1
    /\ saved[1].last_run # NoTime
    /\ \A i \in 1..MaxLoops : loop[i].pc \notin {"book", "booking"}
====
